---- MODULE Spec2Model ----
(***************************************************************************)
(* A model of the driver core of piplay-fork/mongo-go-driver: the cluster  *)
(* clock, the Find / DropIndexes dispatchers, cursor iteration, the        *)
(* Collection write helpers and their server selection, the OP_MSG         *)
(* encoding of write commands, DocumentResult.Decode, the insertopt        *)
(* bundles, the struct-tag parser and the byte form of documents.  Every   *)
(* component has its own specification (SpecClockSeq, SpecClock, ...) over *)
(* its own variables; the variables of the other components stay at their  *)
(* initial values.                                                         *)
(***************************************************************************)
EXTENDS Integers, Sequences, FiniteSets, TLC

VARIABLES
    \* ---- session.ClusterClock (src/core/dispatch/find.go:179-200)
    clusterTime,  \* cc.clusterTime: the cluster-time document held
    lock,         \* cc.lock: 0 when free, else the goroutine holding it
    passed,       \* history: the documents handed to AdvanceClusterTime
    got,          \* the value of the last GetClusterTime that returned
    gotPassed,    \* history: `passed' when that GetClusterTime returned
    calls,        \* number of AdvanceClusterTime calls made (sequential use)
    \* ---- goroutines using the clock concurrently
    gpc,          \* per goroutine: its position in the call it is making
    garg,         \* per goroutine: the argument of its AdvanceClusterTime
    gtmp,         \* per goroutine: the value it read or computed under the lock
    gfloor,       \* per goroutine: the greatest value a GetClusterTime had
                  \* returned when this goroutine's GetClusterTime began
    maxGot,       \* the greatest value any GetClusterTime has returned
    \* ---- a call of dispatch.Find or dispatch.DropIndexes
    fpc,          \* "idle" before the call, "done" when it has returned
    fin,          \* the inputs of the call
    fout,         \* the state of the call as it returned
    \* ---- a cursor returned by Find and the server behind it
    cpc,          \* "none": no cursor yet; "ready": no Next in progress;
                  \* "inNext": a Next call is waiting on getMore
    cin,          \* the inputs of the Find call that made the cursor
    cfind,        \* that call as it returned: the command's Opts, CursorOpts
    cur,          \* the cursor: id, batch, pos (documents handed out), err
    served,       \* history: the documents of all batches the server sent
    delivered,    \* history: the documents Next handed to the caller
    lastGetMore,  \* the last getMore command sent and the cursor it left
    lastReply,    \* the last reply the latest Next call got from the
                  \* server, "none" when it made no round trip
    lastNext,     \* what the last Next call returned
    ctxDone,      \* the context of the Next call in progress is cancelled
    \* ---- a call of a write operation of Collection
    wpc,          \* "idle" before the call, "returned" or "panicked" after it
    win,          \* the inputs of the call
    wout,         \* what the call returned
    bg,           \* the goroutine the call started: "none", "running",
                  \* "finished" or "failed"
    \* ---- a DocumentResult (src/mongo/document_result.go)
    dpc,          \* "none" before the result is made, then "made"
    dr,           \* the DocumentResult: its err field
    dcur,         \* dr.cur, the cursor behind the result
    dcalls,       \* history: one record per Decode call that returned
    dtouch,       \* history: the methods of the cursor that were called
    \* ---- a RoundTrip of an Insert, Update or Delete command
    mpc,          \* "idle" before the call, "done" when it has returned
    mcmd,         \* the command, the server's wire version, the connection
    written,      \* conn.Written: the wire messages written to the connection
    mout,         \* what RoundTrip returned
    \* ---- an insertopt OneBundle or ManyBundle being built and unbundled
    bpc,          \* "idle", "building", then "done" once Unbundle returned
    bfamily,      \* "One" or "Many"
    bstack,       \* the bundles under construction, innermost first; a
                  \* bundle is the sequence of its cells from the head on
    bdedup,       \* the deduplicate argument of the Unbundle call
    bres,         \* the options Unbundle returned
    \* ---- a struct field, its parsed tags and its encoding
    tpc,          \* "idle", "parsed" once the tags are parsed, "encoded"
    tsf,          \* the reflect.StructField: Name and Tag
    tst,          \* the StructTags DefaultStructTagParser returned
    tenc,         \* the field's type and value and whether the struct that
                  \* holds it is itself an inlined field
    tdoc,         \* the elements of the encoded document
    \* ---- a Document being built, written as bytes and read back
    epc,          \* "building", "encoded", "decoded", then "rewritten"
    estack,       \* the documents and arrays under construction, innermost
                  \* first; the last one is the Document itself
    ebytes,       \* the bytes Encode or WriteDocument wrote
    edec,         \* the Document EncodeDocument made of those bytes
    eform,        \* the form in which the bytes were handed to Encode again
    eout,         \* the bytes that second Encode wrote
    \* ---- a call of an operation of Collection and its server selection
    spc,          \* "idle" before the call, "selected" after the selection
    sin,          \* the operation, the read preference, the servers known
    sout          \* the selector used, the servers each filter kept

clockVars == <<clusterTime, lock, passed, got, gotPassed, calls>>
goVars == <<gpc, garg, gtmp, gfloor, maxGot>>

findVars == <<fpc, fin, fout>>

cursorVars ==
    <<cpc, cin, cfind, cur, served, delivered, lastGetMore, lastReply, lastNext, ctxDone>>

writeVars == <<wpc, win, wout, bg>>

decodeVars == <<dpc, dr, dcur, dcalls, dtouch>>

msgVars == <<mpc, mcmd, written, mout>>

bundleVars == <<bpc, bfamily, bstack, bdedup, bres>>

tagVars == <<tpc, tsf, tst, tenc, tdoc>>

codecVars == <<epc, estack, ebytes, edec, eform, eout>>

selectVars == <<spc, sin, sout>>

vars ==
    <<clockVars, goVars, findVars, cursorVars, writeVars, decodeVars, msgVars,
      bundleVars, tagVars, codecVars, selectVars>>

\* What the steps of one component leave alone.
notClock ==
    <<findVars, cursorVars, writeVars, decodeVars, msgVars, bundleVars, tagVars,
      codecVars, selectVars>>
otherThanClock == <<goVars, notClock>>
otherThanFind ==
    <<clockVars, goVars, cursorVars, writeVars, decodeVars, msgVars, bundleVars,
      tagVars, codecVars, selectVars>>
otherThanCursor ==
    <<clockVars, goVars, findVars, writeVars, decodeVars, msgVars, bundleVars, tagVars,
      codecVars, selectVars>>
otherThanWrite ==
    <<clockVars, goVars, findVars, cursorVars, decodeVars, msgVars, bundleVars, tagVars,
      codecVars, selectVars>>
otherThanDecode ==
    <<clockVars, goVars, findVars, cursorVars, writeVars, msgVars, bundleVars, tagVars,
      codecVars, selectVars>>
otherThanMsg ==
    <<clockVars, goVars, findVars, cursorVars, writeVars, decodeVars, bundleVars,
      tagVars, codecVars, selectVars>>
otherThanBundle ==
    <<clockVars, goVars, findVars, cursorVars, writeVars, decodeVars, msgVars, tagVars,
      codecVars, selectVars>>
otherThanTags ==
    <<clockVars, goVars, findVars, cursorVars, writeVars, decodeVars, msgVars,
      bundleVars, codecVars, selectVars>>
otherThanCodec ==
    <<clockVars, goVars, findVars, cursorVars, writeVars, decodeVars, msgVars,
      bundleVars, tagVars, selectVars>>
otherThanSelect ==
    <<clockVars, goVars, findVars, cursorVars, writeVars, decodeVars, msgVars,
      bundleVars, tagVars, codecVars>>

(***************************************************************************)
(* Bounds of the model.                                                    *)
(***************************************************************************)
MaxT == 3          \* cluster-time seconds are drawn from 1..MaxT
MaxI == 1          \* cluster-time ordinals are drawn from 0..MaxI
MaxCalls == 3      \* AdvanceClusterTime calls in a sequential run
NumGoroutines == 3 \* goroutines sharing the clock, one call each
MaxOptsSet == 2    \* options a Find call sets
MaxBatchSize == 2  \* the BatchSize option is drawn from 0..MaxBatchSize
MaxLimit == 3      \* the Limit option is drawn from 0..MaxLimit
MaxDocs == 3       \* documents the server holds for a cursor
MaxBatch == 2      \* documents in one batch of a reply
MaxKeys == 2       \* keys of an update or replacement document
MaxResultDocs == 2 \* documents behind a DocumentResult
MaxDecodes == 3    \* Decode calls on one DocumentResult
MaxCmdDocs == 3    \* documents of one Insert, Update or Delete command
MaxCells == 4      \* arguments and builder calls that make up one bundle
MaxNesting == 2    \* bundles nested inside the outermost bundle
MaxTagLen == 3     \* words and separators in a struct tag
MaxNodes == 3      \* elements of a Document, those of nested ones included
MaxDepth == 2      \* documents and arrays nested inside a Document
MaxServers == 3    \* servers of the topology a collection selects from

(***************************************************************************)
(* Cluster-time documents.  A document {"$clusterTime": {"clusterTime":    *)
(* Timestamp(T, I)}} is identified with its timestamp; the nil document of *)
(* a fresh clock reads as Timestamp(0, 0), below every supplied one.       *)
(***************************************************************************)
NilDoc == [T |-> 0, I |-> 0]

ClusterTimes == [T : 1..MaxT, I : 0..MaxI]

\* Timestamp order: seconds first, then the ordinal.
TsLess(a, b) == a.T < b.T \/ (a.T = b.T /\ a.I < b.I)

TsLeq(a, b) == a = b \/ TsLess(a, b)

\* session.MaxClusterTime: the document with the greater timestamp; the
\* first on a tie.
MaxClusterTime(ct1, ct2) == IF TsLess(ct1, ct2) THEN ct2 ELSE ct1

ClockInit ==
    /\ clusterTime = NilDoc
    /\ lock = 0
    /\ passed = {}
    /\ got = NilDoc
    /\ gotPassed = {}
    /\ calls = 0

GoIdle ==
    /\ gpc = [g \in 1..NumGoroutines |-> "idle"]
    /\ garg = [g \in 1..NumGoroutines |-> NilDoc]
    /\ gtmp = [g \in 1..NumGoroutines |-> NilDoc]
    /\ gfloor = [g \in 1..NumGoroutines |-> NilDoc]
    /\ maxGot = NilDoc

\* No call of Find or DropIndexes has been made.
FindIdle ==
    /\ fpc = "idle"
    /\ fin = [op |-> "none"]
    /\ fout = [returned |-> FALSE]

\* No cursor has been made.
CursorIdle ==
    /\ cpc = "none"
    /\ cin = [op |-> "none"]
    /\ cfind = [returned |-> FALSE]
    /\ cur = [id |-> 0, batch |-> <<>>, pos |-> 0, err |-> "nil"]
    /\ served = <<>>
    /\ delivered = <<>>
    /\ lastGetMore = [sent |-> FALSE]
    /\ lastReply = "none"
    /\ lastNext = "none"
    /\ ctxDone = FALSE

\* No write operation has been called.
WriteIdle ==
    /\ wpc = "idle"
    /\ win = [op |-> "none"]
    /\ wout = [err |-> "nil"]
    /\ bg = "none"

\* No DocumentResult has been made.
DecodeIdle ==
    /\ dpc = "none"
    /\ dr = [err |-> "nil"]
    /\ dcur = [docs |-> <<>>, pos |-> 0, err |-> "nil", failAt |-> 0]
    /\ dcalls = <<>>
    /\ dtouch = <<>>

\* No command has been sent on the connection.
MsgIdle ==
    /\ mpc = "idle"
    /\ mcmd = [kind |-> "none"]
    /\ written = <<>>
    /\ mout = [err |-> "nil"]

\* No bundle has been started.
BundleIdle ==
    /\ bpc = "idle"
    /\ bfamily = "none"
    /\ bstack = <<>>
    /\ bdedup = FALSE
    /\ bres = <<>>

\* No struct field has been looked at.
TagsIdle ==
    /\ tpc = "idle"
    /\ tsf = [Name |-> <<>>, Tag |-> [form |-> "raw", value |-> <<>>]]
    /\ tst = [Name |-> <<>>, OmitEmpty |-> FALSE, MinSize |-> FALSE, Truncate |-> FALSE,
              Inline |-> FALSE, Skip |-> FALSE]
    /\ tenc = [Type |-> "none", Value |-> <<>>, inlined |-> FALSE]
    /\ tdoc = <<>>

\* An empty Document is under construction.
CodecIdle ==
    /\ epc = "building"
    /\ estack = <<[Type |-> 3, Key |-> <<>>, Elems |-> <<>>]>>
    /\ ebytes = <<>>
    /\ edec = <<>>
    /\ eform = "none"
    /\ eout = <<>>

\* No operation of the collection has been called.
SelectIdle ==
    /\ spc = "idle"
    /\ sin = [op |-> "none"]
    /\ sout = [selector |-> "none"]

\* Everything but the clock is as constructed.
RestIdle ==
    /\ FindIdle /\ CursorIdle /\ WriteIdle /\ DecodeIdle /\ MsgIdle /\ BundleIdle
    /\ TagsIdle /\ CodecIdle /\ SelectIdle

(***************************************************************************)
(* The clock used from one goroutine: each call runs from Lock to Unlock   *)
(* without interference, so it is one step.                                *)
(***************************************************************************)
\* A bug AdvanceClusterTime could have: the argument is stored as it comes.
AdvanceClusterTimeOverwrite(ct) ==
    /\ calls < MaxCalls
    /\ lock = 0
    /\ clusterTime' = ct
    /\ passed' = passed \cup {ct}
    /\ calls' = calls + 1
    /\ UNCHANGED <<lock, got, gotPassed>>

\* func (cc *ClusterClock) AdvanceClusterTime(clusterTime bson.Doc)
AdvanceClusterTime(ct) ==
    /\ calls < MaxCalls
    /\ lock = 0
    /\ clusterTime' = MaxClusterTime(clusterTime, ct)
    /\ passed' = passed \cup {ct}
    /\ calls' = calls + 1
    /\ UNCHANGED <<lock, got, gotPassed>>

\* func (cc *ClusterClock) GetClusterTime() bson.Doc
GetClusterTime ==
    /\ lock = 0
    /\ got' = clusterTime
    /\ gotPassed' = passed
    /\ UNCHANGED <<clusterTime, lock, passed, calls>>

InitClockSeq == ClockInit /\ GoIdle /\ RestIdle

NextClockSeq ==
    \/ \E ct \in ClusterTimes : AdvanceClusterTime(ct) /\ UNCHANGED otherThanClock
    \/ GetClusterTime /\ UNCHANGED otherThanClock

SpecClockSeq == InitClockSeq /\ [][NextClockSeq]_vars

\* d is among S and no document of S has a greater timestamp.
IsGreatestOf(d, S) == d \in S /\ \A e \in S : TsLeq(e, d)

\* C1: after any sequence of AdvanceClusterTime calls the clock holds, and
\* GetClusterTime returns, the document with the greatest timestamp among
\* all documents passed so far; a smaller timestamp never moves it back.
C1_ClockHoldsGreatest ==
    /\ passed # {} => IsGreatestOf(clusterTime, passed)
    /\ gotPassed # {} => IsGreatestOf(got, gotPassed)

\* C1 witness: a smaller timestamp was passed after a greater one (the clock
\* differs from one of the documents passed) and GetClusterTime has returned
\* the greater after all of the calls.
C1_Witness ==
    /\ calls = MaxCalls
    /\ gotPassed = passed
    /\ Cardinality(passed) = MaxCalls
    /\ got = [T |-> MaxT, I |-> 0]
    /\ \E d \in passed : TsLess(d, got)

(***************************************************************************)
(* The clock shared by goroutines.  A call is the steps the scheduler can  *)
(* interleave: Lock, the read and the write of cc.clusterTime, Unlock.     *)
(* Each goroutine makes one call.                                          *)
(***************************************************************************)
Goroutines == 1..NumGoroutines

\* A bug Lock could have: it does not wait for the holder.
LockNoWait(g) == lock' = g

\* cc.lock.Lock(): blocks while another goroutine holds the mutex.
Lock(g) == lock = 0 /\ lock' = g

\* cc.lock.Unlock()
Unlock(g) == lock' = 0

\* AdvanceClusterTime, line 197: the call begins and takes the lock.
GoAdvanceLock(g, ct) ==
    /\ gpc[g] = "idle"
    /\ Lock(g)
    /\ gpc' = [gpc EXCEPT ![g] = "adv_locked"]
    /\ garg' = [garg EXCEPT ![g] = ct]
    /\ passed' = passed \cup {ct}
    /\ UNCHANGED <<clusterTime, got, gotPassed, calls, gtmp, gfloor, maxGot, notClock>>

\* AdvanceClusterTime, line 198, right-hand side: read cc.clusterTime and
\* take the maximum with the argument.
GoAdvanceRead(g) ==
    /\ gpc[g] = "adv_locked"
    /\ gtmp' = [gtmp EXCEPT ![g] = MaxClusterTime(clusterTime, garg[g])]
    /\ gpc' = [gpc EXCEPT ![g] = "adv_computed"]
    /\ UNCHANGED <<clockVars, garg, gfloor, maxGot, notClock>>

\* AdvanceClusterTime, line 198, the assignment to cc.clusterTime.
GoAdvanceWrite(g) ==
    /\ gpc[g] = "adv_computed"
    /\ clusterTime' = gtmp[g]
    /\ gpc' = [gpc EXCEPT ![g] = "adv_written"]
    /\ UNCHANGED <<lock, passed, got, gotPassed, calls, garg, gtmp, gfloor, maxGot, notClock>>

\* AdvanceClusterTime, line 199: unlock and return.
GoAdvanceUnlock(g) ==
    /\ gpc[g] = "adv_written"
    /\ Unlock(g)
    /\ gpc' = [gpc EXCEPT ![g] = "done"]
    /\ UNCHANGED <<clusterTime, passed, got, gotPassed, calls, garg, gtmp, gfloor, maxGot, notClock>>

\* GetClusterTime, line 188: the call begins and takes the lock.
GoGetLock(g) ==
    /\ gpc[g] = "idle"
    /\ Lock(g)
    /\ gpc' = [gpc EXCEPT ![g] = "get_locked"]
    /\ gfloor' = [gfloor EXCEPT ![g] = maxGot]
    /\ UNCHANGED <<clusterTime, passed, got, gotPassed, calls, garg, gtmp, maxGot, notClock>>

\* GetClusterTime, line 189: ct = cc.clusterTime
GoGetRead(g) ==
    /\ gpc[g] = "get_locked"
    /\ gtmp' = [gtmp EXCEPT ![g] = clusterTime]
    /\ gpc' = [gpc EXCEPT ![g] = "get_read"]
    /\ UNCHANGED <<clockVars, garg, gfloor, maxGot, notClock>>

\* GetClusterTime, lines 190-192: unlock and return ct.
GoGetUnlock(g) ==
    /\ gpc[g] = "get_read"
    /\ Unlock(g)
    /\ gpc' = [gpc EXCEPT ![g] = "got"]
    /\ maxGot' = IF TsLess(maxGot, gtmp[g]) THEN gtmp[g] ELSE maxGot
    /\ UNCHANGED <<clusterTime, passed, got, gotPassed, calls, garg, gtmp, gfloor, notClock>>

InitClock == ClockInit /\ GoIdle /\ RestIdle

NextClock ==
    \E g \in Goroutines :
        \/ \E ct \in ClusterTimes : GoAdvanceLock(g, ct)
        \/ GoAdvanceRead(g)
        \/ GoAdvanceWrite(g)
        \/ GoAdvanceUnlock(g)
        \/ GoGetLock(g)
        \/ GoGetRead(g)
        \/ GoGetUnlock(g)

SpecClock == InitClock /\ [][NextClock]_vars

\* Every call that began has returned.
AllReturned == \A g \in Goroutines : gpc[g] \in {"idle", "done", "got"}

\* C2: in every interleaving of concurrent AdvanceClusterTime and
\* GetClusterTime calls no advance is lost (once all calls have returned the
\* clock holds the greatest supplied cluster time), a GetClusterTime never
\* returns less than a GetClusterTime that returned before it began, and at
\* most one goroutine is between Lock and Unlock.
C2_NoLostAdvance ==
    /\ (AllReturned /\ passed # {}) => IsGreatestOf(clusterTime, passed)
    /\ \A g \in Goroutines : gpc[g] \in {"get_read", "got"} => TsLeq(gfloor[g], gtmp[g])
    /\ Cardinality({g \in Goroutines :
            gpc[g] \in {"adv_locked", "adv_computed", "adv_written", "get_locked", "get_read"}}) <= 1

\* C2 witness: two goroutines advanced with different times, the smaller
\* one last, a third read the clock, and all three calls have returned.
C2_Witness ==
    /\ \A g \in Goroutines : gpc[g] \in {"done", "got"}
    /\ \E g, h \in Goroutines :
        /\ gpc[g] = "done" /\ gpc[h] = "done"
        /\ TsLess(garg[h], garg[g])
        /\ gtmp[h] = garg[g]
    /\ \E g \in Goroutines : gpc[g] = "got" /\ gtmp[g] = clusterTime /\ gtmp[g] # NilDoc
(***************************************************************************)
(* dispatch.Find and dispatch.DropIndexes.  A call is a pure function of   *)
(* its inputs: where the environment fails (server selection, connection,  *)
(* read preference, session creation, round trip), the session the command *)
(* brings, the selected server's wire version and the merged options.  The *)
(* function is the handler's statements applied in source order to the     *)
(* state of the call; a statement after a return changes nothing.          *)
(***************************************************************************)
Elem(key, type, v) == [Key |-> key, Type |-> type, V |-> v]

\* An element's value is its BSON type (boolean, int32, int64, string,
\* document) and a number: the integer, 0/1 for a boolean, an identifier in
\* place of the content of a string or a document.

\* time.Millisecond, in the nanoseconds a time.Duration counts.
Millisecond == 1000000

\* int64(d / time.Millisecond) of a non-negative time.Duration d.
DurationMS(d) == d \div Millisecond

\* The cursor types of the options package (an iota enumeration).
NonTailable == 0

Tailable == 1

TailableAwait == 2

\* desc.WireVersion.Max below which Find rejects a collation.
CollationWireVersion == 5

BoolOptions ==
    {"AllowPartialResults", "NoCursorTimeout", "OplogReplay", "ReturnKey",
     "ShowRecordID", "Snapshot"}

EncodedOptions == {"Hint", "Max", "Min", "Projection", "Sort"}

FindOptionNames ==
    BoolOptions \cup EncodedOptions \cup
    {"BatchSize", "Collation", "Comment", "CursorType", "Limit", "MaxAwaitTime",
     "MaxTime", "Skip"}

\* The values an option is drawn from: a *bool as 0/1, an option that goes
\* through interfaceToElement as 1 (it encodes) or 0 (encoding fails), a
\* collation, comment or skip as one value.
Durations == {0, Millisecond - 1, Millisecond, 250 * Millisecond}

OptionDomain(n) ==
    CASE n \in BoolOptions -> {0, 1}
      [] n \in EncodedOptions -> {0, 1}
      [] n = "BatchSize" -> 0..MaxBatchSize
      [] n = "Limit" -> 0..MaxLimit
      [] n = "CursorType" -> {NonTailable, Tailable, TailableAwait}
      [] n \in {"MaxAwaitTime", "MaxTime"} -> Durations
      [] OTHER -> {1}

\* The option records (options.FindOptions after MergeFindOptions) that set
\* exactly the options of S: a function from the names set to their values.
RECURSIVE OptionValues(_)
OptionValues(S) ==
    IF S = {} THEN {[n \in {} |-> 0]}
    ELSE LET n == CHOOSE x \in S : TRUE
         IN {[m \in S |-> IF m = n THEN v ELSE f[m]] :
                v \in OptionDomain(n), f \in OptionValues(S \ {n})}

RECURSIVE SubsetsUpTo(_, _)
SubsetsUpTo(S, k) ==
    IF k = 0 \/ S = {} THEN {{}}
    ELSE LET n == CHOOSE x \in S : TRUE
         IN SubsetsUpTo(S \ {n}, k) \cup {T \cup {n} : T \in SubsetsUpTo(S \ {n}, k - 1)}

IsSet(fo, n) == n \in DOMAIN fo

\* The state of a call as it begins.
CallStart ==
    [returned |-> FALSE, err |-> "nil", cursor |-> FALSE, Opts |-> <<>>,
     CursorOpts |-> <<>>, log |-> <<>>, session |-> "none", deferred |-> <<>>]

Return(st, e) == [st EXCEPT !.returned = TRUE, !.err = e]

Event(st, e) == [st EXCEPT !.log = Append(@, e)]

AppendOpt(st, e) == [st EXCEPT !.Opts = Append(@, e)]

AppendCursorOpt(st, e) == [st EXCEPT !.CursorOpts = Append(@, e)]

\* ss, err := topo.SelectServer(ctx, selector)
StSelectServer(in, st) ==
    IF st.returned THEN st
    ELSE IF in.fail = "select" THEN Return(st, "ErrSelectServer")
    ELSE Event(st, "SelectServer")

\* A bug lines 43-47 could have: the connection's Close is not deferred.
StConnectionNoDefer(in, st) ==
    IF st.returned THEN st
    ELSE IF in.fail = "connection" THEN Return(st, "ErrConnection")
    ELSE Event(st, "Connection")

\* conn, err := ss.Connection(ctx); defer conn.Close()
StConnection(in, st) ==
    IF st.returned THEN st
    ELSE IF in.fail = "connection" THEN Return(st, "ErrConnection")
    ELSE [Event(st, "Connection") EXCEPT !.deferred = <<"conn.Close">> \o @]

\* rp, err := getReadPrefBasedOnTransaction(cmd.ReadPref, cmd.Session)
StReadPref(in, st) ==
    IF st.returned THEN st
    ELSE IF in.fail = "readpref" THEN Return(st, "ErrReadPref")
    ELSE st

\* Find: if cmd.Session == nil && topo.SupportsSessions() { NewClientSession }
StFindSession(in, st) ==
    IF st.returned THEN st
    ELSE IF in.session = "explicit" THEN [st EXCEPT !.session = "explicit"]
    ELSE IF in.session = "unsupported" THEN st
    ELSE IF in.fail = "session" THEN Return(st, "ErrSession")
    ELSE [Event(st, "NewClientSession") EXCEPT !.session = "implicit"]

\* if fo.<Name> != nil { cmd.Opts = append(cmd.Opts, bson.Elem{key, bson.Boolean(*fo.<Name>)}) }
StBoolOpt(fo, st, name, key) ==
    IF st.returned \/ ~IsSet(fo, name) THEN st
    ELSE AppendOpt(st, Elem(key, "boolean", fo[name]))

\* A bug lines 67-75 could have: singleBatch only for a limit below the
\* batch size.
StBatchSizeStrict(fo, st) ==
    IF st.returned \/ ~IsSet(fo, "BatchSize") THEN st
    ELSE LET elem == Elem("batchSize", "int32", fo["BatchSize"])
             s1 == AppendCursorOpt(AppendOpt(st, elem), elem)
         IN IF IsSet(fo, "Limit") /\ fo["BatchSize"] # 0 /\ fo["Limit"] < fo["BatchSize"]
            THEN AppendOpt(s1, Elem("singleBatch", "boolean", 1))
            ELSE s1

\* lines 67-75: batchSize goes to the command and to the cursor options,
\* singleBatch to the command.
StBatchSize(fo, st) ==
    IF st.returned \/ ~IsSet(fo, "BatchSize") THEN st
    ELSE LET elem == Elem("batchSize", "int32", fo["BatchSize"])
             s1 == AppendCursorOpt(AppendOpt(st, elem), elem)
         IN IF IsSet(fo, "Limit") /\ fo["BatchSize"] # 0 /\ fo["Limit"] <= fo["BatchSize"]
            THEN AppendOpt(s1, Elem("singleBatch", "boolean", 1))
            ELSE s1

\* A bug lines 76-81 could have: the collation is sent whatever the wire
\* version of the server is.
StCollationAnyVersion(in, st) ==
    IF st.returned \/ ~IsSet(in.fo, "Collation") THEN st
    ELSE AppendOpt(st, Elem("collation", "document", in.fo["Collation"]))

\* lines 76-81
StCollation(in, st) ==
    IF st.returned \/ ~IsSet(in.fo, "Collation") THEN st
    ELSE IF in.wireMax < CollationWireVersion THEN Return(st, "ErrCollation")
    ELSE AppendOpt(st, Elem("collation", "document", in.fo["Collation"]))

\* lines 82-84
StComment(fo, st) ==
    IF st.returned \/ ~IsSet(fo, "Comment") THEN st
    ELSE AppendOpt(st, Elem("comment", "string", fo["Comment"]))

\* lines 85-92
StCursorType(fo, st) ==
    IF st.returned \/ ~IsSet(fo, "CursorType") THEN st
    ELSE IF fo["CursorType"] = Tailable
         THEN AppendOpt(st, Elem("tailable", "boolean", 1))
    ELSE IF fo["CursorType"] = TailableAwait
         THEN AppendOpt(AppendOpt(st, Elem("tailable", "boolean", 1)),
                        Elem("awaitData", "boolean", 1))
    ELSE st

\* hint, max, min, projection, sort: interfaceToElement(key, fo.<Name>,
\* registry), the error returned as it is.
StEncodedOpt(fo, st, name, key) ==
    IF st.returned \/ ~IsSet(fo, name) THEN st
    ELSE IF fo[name] = 0 THEN Return(st, "ErrEncode")
    ELSE AppendOpt(st, Elem(key, "document", fo[name]))

\* limit and skip: bson.Int64(*fo.<Name>)
StInt64Opt(fo, st, name, key) ==
    IF st.returned \/ ~IsSet(fo, name) THEN st
    ELSE AppendOpt(st, Elem(key, "int64", fo[name]))

\* A bug lines 112-115 could have: the await time is put into the find
\* command as well.
StMaxAwaitTimeInCommand(fo, st) ==
    IF st.returned \/ ~IsSet(fo, "MaxAwaitTime") THEN st
    ELSE AppendOpt(AppendCursorOpt(st, Elem("maxTimeMS", "int64", DurationMS(fo["MaxAwaitTime"]))),
                   Elem("maxAwaitTimeMS", "int64", DurationMS(fo["MaxAwaitTime"])))

\* lines 112-115: the await time is maxTimeMS of the cursor options only.
StMaxAwaitTime(fo, st) ==
    IF st.returned \/ ~IsSet(fo, "MaxAwaitTime") THEN st
    ELSE AppendCursorOpt(st, Elem("maxTimeMS", "int64", DurationMS(fo["MaxAwaitTime"])))

\* lines 116-118
StMaxTime(fo, st) ==
    IF st.returned \/ ~IsSet(fo, "MaxTime") THEN st
    ELSE AppendOpt(st, Elem("maxTimeMS", "int64", DurationMS(fo["MaxTime"])))

\* line 162: return cmd.RoundTrip(ctx, desc, ss, conn)
StFindRoundTrip(in, st) ==
    IF st.returned THEN st
    ELSE IF in.fail = "roundtrip" THEN Return(Event(st, "RoundTrip"), "ErrRoundTrip")
    ELSE [Return(Event(st, "RoundTrip"), "nil") EXCEPT !.cursor = TRUE]

\* The deferred calls run as the function returns, last deferred first.
RunDeferred(st) == [st EXCEPT !.log = @ \o st.deferred, !.deferred = <<>>]

\* lines 63-160: the options, in source order.
FindOptions(in, st) ==
    LET fo == in.fo
        s1 == StBoolOpt(fo, st, "AllowPartialResults", "allowPartialResults")
        s2 == StBatchSize(fo, s1)
        s3 == StCollation(in, s2)
        s4 == StComment(fo, s3)
        s5 == StCursorType(fo, s4)
        s6 == StEncodedOpt(fo, s5, "Hint", "hint")
        s7 == StInt64Opt(fo, s6, "Limit", "limit")
        s8 == StEncodedOpt(fo, s7, "Max", "max")
        s9 == StMaxAwaitTime(fo, s8)
        s10 == StMaxTime(fo, s9)
        s11 == StEncodedOpt(fo, s10, "Min", "min")
        s12 == StBoolOpt(fo, s11, "NoCursorTimeout", "noCursorTimeout")
        s13 == StBoolOpt(fo, s12, "OplogReplay", "oplogReplay")
        s14 == StEncodedOpt(fo, s13, "Projection", "projection")
        s15 == StBoolOpt(fo, s14, "ReturnKey", "returnKey")
        s16 == StBoolOpt(fo, s15, "ShowRecordID", "showRecordId")
        s17 == StInt64Opt(fo, s16, "Skip", "skip")
        s18 == StBoolOpt(fo, s17, "Snapshot", "snapshot")
    IN StEncodedOpt(fo, s18, "Sort", "sort")

\* A bug Find could have: the session is started before the connection is
\* acquired.
FindSessionFirst(in) ==
    RunDeferred(StFindRoundTrip(in, FindOptions(in,
        StReadPref(in, StConnection(in, StFindSession(in, StSelectServer(in, CallStart)))))))

\* func Find(ctx, cmd, topo, selector, clientID, pool, registry, opts...)
Find(in) ==
    RunDeferred(StFindRoundTrip(in, FindOptions(in,
        StFindSession(in, StReadPref(in, StConnection(in, StSelectServer(in, CallStart)))))))

\* lines 261-264 of DropIndexes
StDropMaxTime(in, st) ==
    IF st.returned \/ ~IsSet(in.fo, "MaxTime") THEN st
    ELSE AppendOpt(st, Elem("maxTimeMS", "int64", DurationMS(in.fo["MaxTime"])))

\* A bug lines 266-273 could have: the session's end is not deferred.
StDropSessionNoDefer(in, st) ==
    IF st.returned THEN st
    ELSE IF in.session = "explicit" THEN [st EXCEPT !.session = "explicit"]
    ELSE IF in.session = "unsupported" THEN st
    ELSE IF in.fail = "session" THEN Return(st, "ErrSession")
    ELSE [Event(st, "NewClientSession") EXCEPT !.session = "implicit"]

\* DropIndexes, lines 266-273: as in Find, and the session's end is deferred.
StDropSession(in, st) ==
    IF st.returned THEN st
    ELSE IF in.session = "explicit" THEN [st EXCEPT !.session = "explicit"]
    ELSE IF in.session = "unsupported" THEN st
    ELSE IF in.fail = "session" THEN Return(st, "ErrSession")
    ELSE [Event(st, "NewClientSession") EXCEPT
            !.session = "implicit", !.deferred = <<"EndSession">> \o @]

\* DropIndexes, line 275: return cmd.RoundTrip(ctx, ss.Description(), conn)
StDropRoundTrip(in, st) ==
    IF st.returned THEN st
    ELSE IF in.fail = "roundtrip" THEN Return(Event(st, "RoundTrip"), "ErrRoundTrip")
    ELSE Return(Event(st, "RoundTrip"), "nil")

\* func DropIndexes(ctx, cmd, topo, selector, clientID, pool, opts...)
DropIndexes(in) ==
    RunDeferred(StDropRoundTrip(in, StDropSession(in, StDropMaxTime(in,
        StConnection(in, StSelectServer(in, CallStart))))))

\* The inputs of a call.  The options and the wire version are read after
\* the session is attached, so they vary only in the calls that get there.
FailPoints == {"none", "select", "connection", "readpref", "session", "roundtrip"}

SessionKinds == {"explicit", "supported", "unsupported"}

WireVersions == {CollationWireVersion - 1, CollationWireVersion, CollationWireVersion + 1}

FindOptionRecords ==
    UNION {OptionValues(S) : S \in SubsetsUpTo(FindOptionNames, MaxOptsSet)}

FindInputs ==
    {[op |-> "Find", fail |-> f, session |-> s, wireMax |-> w, fo |-> fo] :
        f \in {"none", "roundtrip"}, s \in SessionKinds, w \in WireVersions,
        fo \in FindOptionRecords}
    \cup
    {[op |-> "Find", fail |-> f, session |-> s, wireMax |-> CollationWireVersion,
      fo |-> [n \in {} |-> 0]] :
        f \in {"select", "connection", "readpref"}, s \in SessionKinds}
    \cup
    {[op |-> "Find", fail |-> "session", session |-> "supported",
      wireMax |-> CollationWireVersion, fo |-> [n \in {} |-> 0]]}

DropIndexesInputs ==
    {[op |-> "DropIndexes", fail |-> f, session |-> s, wireMax |-> CollationWireVersion,
      fo |-> fo] :
        f \in FailPoints \ {"readpref"}, s \in SessionKinds,
        fo \in UNION {OptionValues(S) : S \in SUBSET {"MaxTime"}}}
CallFind(in) ==
    /\ fpc = "idle"
    /\ fpc' = "done"
    /\ fin' = in
    /\ fout' = Find(in)

CallDropIndexes(in) ==
    /\ fpc = "idle"
    /\ fpc' = "done"
    /\ fin' = in
    /\ fout' = DropIndexes(in)

InitFind == ClockInit /\ GoIdle /\ RestIdle

NextFind ==
    \/ fpc = "idle" /\ \E in \in FindInputs : CallFind(in) /\ UNCHANGED otherThanFind
    \/ fpc = "idle" /\ \E in \in DropIndexesInputs : CallDropIndexes(in) /\ UNCHANGED otherThanFind

SpecFind == InitFind /\ [][NextFind]_vars

\* The place of event e in a log, 0 when it is not there.
Pos(log, e) ==
    IF \E i \in 1..Len(log) : log[i] = e
    THEN CHOOSE i \in 1..Len(log) : log[i] = e /\ \A j \in 1..(i - 1) : log[j] # e
    ELSE 0

\* Event a is in the log whenever b is, and before it.
Before(log, a, b) == Pos(log, b) # 0 => (Pos(log, a) # 0 /\ Pos(log, a) < Pos(log, b))

\* C7: Find and DropIndexes select a server, then acquire a connection, then
\* attach the session, then round-trip the command; when server selection
\* fails nothing else has happened, and when the connection cannot be
\* acquired no session is started and no command is sent.
C7_DispatchOrder ==
    fpc = "done" =>
        /\ Before(fout.log, "SelectServer", "Connection")
        /\ Before(fout.log, "Connection", "NewClientSession")
        /\ Before(fout.log, "Connection", "RoundTrip")
        /\ Before(fout.log, "NewClientSession", "RoundTrip") \/ fout.session # "implicit"
        /\ Pos(fout.log, "RoundTrip") # 0 =>
              (fin.session = "supported" <=> Pos(fout.log, "NewClientSession") # 0)
        /\ fin.fail = "select" => (fout.log = <<>> /\ fout.err = "ErrSelectServer")
        /\ fin.fail = "connection" =>
              (fout.log = <<"SelectServer">> /\ fout.err = "ErrConnection")

\* C7 witness: a Find that went through all four steps in order.
C7_Witness ==
    /\ fpc = "done"
    /\ fin.op = "Find"
    /\ fout.log = <<"SelectServer", "Connection", "NewClientSession", "RoundTrip", "conn.Close">>
    /\ fout.err = "nil"
(***************************************************************************)
(* Cursor iteration.  The cursor's implementation is not among the source  *)
(* files (src/mongo/private/roots/command/cursor.go declares the interface *)
(* only): Next is modelled from the specification's "Cursor streaming".    *)
(* The server numbers its documents 1, 2, ...; a reply carries the next    *)
(* few of them and the cursor id, 0 once the server has closed the cursor. *)
(* A Next call that has to wait for documents is several steps: one per    *)
(* getMore round trip, between which the caller's context can be           *)
(* cancelled.                                                              *)
(***************************************************************************)
Min(a, b) == IF a < b THEN a ELSE b

\* The Find calls that make a cursor: no failure, and the options that
\* reach the cursor or the server's time limits.
CursorOptionNames == {"BatchSize", "CursorType", "Limit", "MaxAwaitTime", "MaxTime"}

CursorFindInputs ==
    {[op |-> "Find", fail |-> "none", session |-> "supported",
      wireMax |-> CollationWireVersion, fo |-> fo] :
        fo \in UNION {OptionValues(S) : S \in SubsetsUpTo(CursorOptionNames, MaxOptsSet)}}

\* The replies the server can give when it has sent n documents so far.
Replies(n) ==
    {[kind |-> "batch", n |-> k, id |-> i] :
        k \in 0..Min(MaxBatch, MaxDocs - n), i \in {0, 1}}
    \cup {[kind |-> "error", n |-> 0, id |-> 0]}

\* The documents of a reply of k documents after n were sent.
Batch(n, k) == [i \in 1..k |-> n + i]

\* A bug Next could have: a batch counts as drained with one document left.
DrainedEarly(c) == c.pos + 1 >= Len(c.batch)

\* The current batch is used up.
Drained(c) == c.pos >= Len(c.batch)

\* A bug Next could have: it gives up on the first empty reply.
NeverWait(c) == FALSE

\* Next goes on issuing getMore: the reply was empty and the cursor lives.
KeepWaiting(c) == c.err = "nil" /\ c.id # 0 /\ Len(c.batch) = 0

\* getMore{cursor: id, ...CursorOpts}
GetMoreCommand(c, opts) == <<Elem("getMore", "int64", c.id)>> \o opts

\* The cursor after a reply to getMore.
ApplyReply(c, reply, n) ==
    IF reply.kind = "error" THEN [c EXCEPT !.err = "ErrGetMore"]
    ELSE [c EXCEPT !.id = reply.id, !.batch = Batch(n, reply.n), !.pos = 0]

\* Find's round trip: the reply's cursor id and firstBatch make the cursor.
CursorFind(in, reply) ==
    /\ cpc = "none"
    /\ reply.kind = "batch"
    /\ cpc' = "ready"
    /\ cin' = in
    /\ cfind' = Find(in)
    /\ cur' = [id |-> reply.id, batch |-> Batch(0, reply.n), pos |-> 0, err |-> "nil"]
    /\ served' = Batch(0, reply.n)
    /\ lastReply' = "first"
    /\ UNCHANGED <<delivered, lastGetMore, lastNext, ctxDone>>

\* Next with a document left in the batch: hand it out.
NextFromBatch ==
    /\ cpc = "ready"
    /\ cur.err = "nil"
    /\ ~Drained(cur)
    /\ cur' = [cur EXCEPT !.pos = @ + 1]
    /\ delivered' = Append(delivered, cur.batch[cur.pos + 1])
    /\ lastNext' = "true"
    /\ lastReply' = "none"
    /\ UNCHANGED <<cpc, cin, cfind, served, lastGetMore, ctxDone>>

\* Next with the batch drained and the cursor closed, or after an error:
\* end of iteration.
NextEnd ==
    /\ cpc = "ready"
    /\ cur.err # "nil" \/ (Drained(cur) /\ cur.id = 0)
    /\ lastNext' = "false"
    /\ lastReply' = "none"
    /\ UNCHANGED <<cpc, cin, cfind, cur, served, delivered, lastGetMore, ctxDone>>

\* Next with the batch drained and a live cursor, on entry or while it
\* waits: one getMore round trip.
NextGetMore(reply) ==
    /\ cpc \in {"ready", "inNext"}
    /\ cur.err = "nil"
    /\ cpc = "ready" => (Drained(cur) /\ cur.id # 0)
    /\ ~ctxDone
    /\ LET c == ApplyReply(cur, reply, Len(served))
       IN /\ lastGetMore' = [sent |-> TRUE, cmd |-> GetMoreCommand(cur, cfind.CursorOpts),
                             pos |-> cur.pos, len |-> Len(cur.batch), id |-> cur.id,
                             waiting |-> (cpc = "inNext")]
          /\ served' = served \o (IF reply.kind = "batch" THEN Batch(Len(served), reply.n) ELSE <<>>)
          /\ lastReply' = IF reply.kind = "error" THEN "error"
                          ELSE IF reply.n > 0 THEN "documents"
                          ELSE IF reply.id = 0 THEN "emptyClosed" ELSE "empty"
          /\ IF KeepWaiting(c)
             THEN /\ cpc' = "inNext"
                  /\ cur' = c
                  /\ UNCHANGED <<delivered, lastNext>>
             ELSE IF c.err = "nil" /\ Len(c.batch) > 0
             THEN /\ cpc' = "ready"
                  /\ cur' = [c EXCEPT !.pos = 1]
                  /\ delivered' = Append(delivered, c.batch[1])
                  /\ lastNext' = "true"
             ELSE /\ cpc' = "ready"
                  /\ cur' = c
                  /\ lastNext' = "false"
                  /\ UNCHANGED delivered
    /\ UNCHANGED <<cin, cfind, ctxDone>>

\* The caller's context is cancelled or expires while Next waits.
CtxCancel ==
    /\ cpc = "inNext"
    /\ ~ctxDone
    /\ ctxDone' = TRUE
    /\ UNCHANGED <<cpc, cin, cfind, cur, served, delivered, lastGetMore, lastReply, lastNext>>

\* The waiting Next finds its context done: it returns false with the
\* context's error.
NextCtxDone ==
    /\ cpc = "inNext"
    /\ ctxDone
    /\ cpc' = "ready"
    /\ cur' = [cur EXCEPT !.err = "ErrContext"]
    /\ lastNext' = "false"
    /\ ctxDone' = FALSE
    /\ UNCHANGED <<cin, cfind, served, delivered, lastGetMore, lastReply>>

InitCursor == ClockInit /\ GoIdle /\ RestIdle

NextCursor ==
    \/ /\ cpc = "none"
       /\ \E in \in CursorFindInputs : \E reply \in Replies(0) : CursorFind(in, reply)
       /\ UNCHANGED otherThanCursor
    \/ NextFromBatch /\ UNCHANGED otherThanCursor
    \/ NextEnd /\ UNCHANGED otherThanCursor
    \/ /\ cpc \in {"ready", "inNext"}
       /\ \E reply \in Replies(Len(served)) : NextGetMore(reply)
       /\ UNCHANGED otherThanCursor
    \/ CtxCancel /\ UNCHANGED otherThanCursor
    \/ NextCtxDone /\ UNCHANGED otherThanCursor

SpecCursor == InitCursor /\ [][NextCursor]_vars
HasKey(opts, k) == \E i \in 1..Len(opts) : opts[i].Key = k

\* v is the duration d in whole milliseconds.
InMilliseconds(v, d) == v * Millisecond <= d /\ d < (v + 1) * Millisecond

\* Every element of opts with key k has a value that is d in milliseconds.
KeyIsDuration(opts, k, d) ==
    \A i \in 1..Len(opts) : opts[i].Key = k => InMilliseconds(opts[i].V, d)

\* C3: with MaxAwaitTime set, the find command carries no maxAwaitTimeMS and
\* carries maxTimeMS exactly when MaxTime is set, with MaxTime's value, while
\* every getMore carries maxTimeMS equal to MaxAwaitTime in milliseconds.
C3_AwaitTimeOnlyOnGetMore ==
    (cpc # "none" /\ IsSet(cin.fo, "MaxAwaitTime")) =>
        /\ ~HasKey(cfind.Opts, "maxAwaitTimeMS")
        /\ HasKey(cfind.Opts, "maxTimeMS") <=> IsSet(cin.fo, "MaxTime")
        /\ IsSet(cin.fo, "MaxTime") => KeyIsDuration(cfind.Opts, "maxTimeMS", cin.fo["MaxTime"])
        /\ lastGetMore.sent =>
            /\ HasKey(lastGetMore.cmd, "maxTimeMS")
            /\ KeyIsDuration(lastGetMore.cmd, "maxTimeMS", cin.fo["MaxAwaitTime"])
            /\ ~HasKey(lastGetMore.cmd, "maxAwaitTimeMS")

\* C3 witness: MaxAwaitTime is 250 ms and MaxTime 1 ms, the find command
\* carries maxTimeMS 1 and a getMore was sent with maxTimeMS 250.
C3_Witness ==
    /\ cpc # "none"
    /\ IsSet(cin.fo, "MaxAwaitTime") /\ cin.fo["MaxAwaitTime"] = 250 * Millisecond
    /\ IsSet(cin.fo, "MaxTime") /\ cin.fo["MaxTime"] = Millisecond
    /\ cfind.Opts = <<Elem("maxTimeMS", "int64", 1)>>
    /\ lastGetMore.sent
    /\ lastGetMore.cmd = <<Elem("getMore", "int64", 1), Elem("maxTimeMS", "int64", 250)>>

TailableAwaitCursor ==
    cpc # "none" /\ IsSet(cin.fo, "CursorType") /\ cin.fo["CursorType"] = TailableAwait

\* C4: on a tailable-await cursor with a drained batch and a live id, an
\* empty getMore reply does not end Next while the context is live: the call
\* stays in progress; Next returns false without an error only once the
\* cursor id is 0, it fails with the context's error only while it waits on
\* a live cursor with no document, and when a reply brings documents Next
\* returns true with the first of them.
C4_NextWaitsForDocuments ==
    TailableAwaitCursor =>
        /\ (lastReply = "empty" /\ cur.err = "nil") => cpc = "inNext"
        /\ (cpc = "ready" /\ lastNext = "false" /\ cur.err = "nil") => cur.id = 0
        /\ cur.err = "ErrContext" => (cur.id # 0 /\ Len(cur.batch) = 0)
        /\ (cpc = "ready" /\ lastReply = "documents" /\ cur.pos = 1) =>
            /\ lastNext = "true"
            /\ delivered[Len(delivered)] = served[Len(served) - Len(cur.batch) + 1]

\* C4 witness: a Next call on a tailable-await cursor got an empty reply,
\* went on, and returned true with the document of a later reply, the
\* second document the caller has seen.
C4_Witness ==
    /\ TailableAwaitCursor
    /\ cpc = "ready"
    /\ lastGetMore.sent /\ lastGetMore.waiting
    /\ lastReply = "documents"
    /\ lastNext = "true"
    /\ delivered = <<1, 2>>

IsPrefix(a, b) == Len(a) <= Len(b) /\ \A i \in 1..Len(a) : a[i] = b[i]

\* What holds of a cursor in every state (C5).
CursorInOrder ==
    cpc # "none" =>
        /\ IsPrefix(delivered, served)
        /\ Len(delivered) + (Len(cur.batch) - cur.pos) = Len(served)
        /\ lastGetMore.sent => (lastGetMore.pos = lastGetMore.len /\ lastGetMore.id # 0)
        /\ (cpc = "ready" /\ lastNext = "false" /\ cur.err = "nil") =>
              (cur.id = 0 /\ delivered = served)

\* What holds of every step of a cursor (C5): with the id 0 and the batch
\* drained, a Next call reports the end and hands out nothing.
CursorEndStep ==
    (cpc = "ready" /\ cur.err = "nil" /\ cur.id = 0 /\ cur.pos >= Len(cur.batch)) =>
        (lastNext' = "false" /\ delivered' = delivered /\ lastGetMore' = lastGetMore)

\* C5: Next delivers the documents of firstBatch and then of each nextBatch
\* in server order, none skipped and none twice; a getMore is issued only
\* with the batch drained and a non-zero id; with id 0 and the batch drained
\* Next reports the end of the iteration.
C5_DocumentsInOrder == []CursorInOrder /\ [][CursorEndStep]_cursorVars

\* C5 witness: all documents of a first batch of two and of a later batch
\* were delivered and Next has reported the end.
C5_Witness ==
    /\ cpc = "ready"
    /\ lastNext = "false"
    /\ cur.err = "nil"
    /\ lastGetMore.sent
    /\ delivered = <<1, 2, 3>>
    /\ served = delivered

(***************************************************************************)
(* The write operations of Collection                                      *)
(* (src/core/integration/cursor_test.go:328-967).  A key is the sequence   *)
(* of its characters and a document the sequence of its keys: the checks   *)
(* the operations make look at keys only.                                  *)
(***************************************************************************)
Keys == {<<>>, <<"a">>, <<"$", "s">>}

RECURSIVE SeqsUpTo(_, _)
SeqsUpTo(S, n) ==
    IF n = 0 THEN {<<>>}
    ELSE LET R == SeqsUpTo(S, n - 1)
         IN R \cup {Append(r, k) : r \in {x \in R : Len(x) = n - 1}, k \in S}

KeyDocs == SeqsUpTo(Keys, MaxKeys)

\* strings.HasPrefix(s, c) for a one-character c
HasPrefix(s, c) == Len(s) > 0 /\ s[1] = c

\* ensureDollarKey: only the first key is looked at, and an empty document
\* passes.
ensureDollarKey(doc) ==
    IF Len(doc) > 0 /\ ~HasPrefix(doc[1], "$") THEN "ErrNoDollarKey" ELSE "nil"

\* len(doc) > 0 && doc[0].Name[0] == '$': indexing an empty name panics.
ReplacementCheck(doc) ==
    IF Len(doc) = 0 THEN "nil"
    ELSE IF Len(doc[1]) = 0 THEN "panic"
    ELSE IF doc[1][1] = "$" THEN "ErrDollarKey" ELSE "nil"

\* len(doc) > 0 && doc[0].Name[0] != '$'
UpdateCheck(doc) ==
    IF Len(doc) = 0 THEN "nil"
    ELSE IF Len(doc[1]) = 0 THEN "panic"
    ELSE IF doc[1][1] # "$" THEN "ErrNoDollarKey" ELSE "nil"

InsertOps == {"InsertOne", "InsertMany"}
DeleteOps == {"DeleteOne", "DeleteMany", "FindOneAndDelete"}
UpdateOps == {"UpdateOne", "UpdateMany"}
ReplaceOps == {"ReplaceOne", "FindOneAndReplace"}
WriteOps == InsertOps \cup DeleteOps \cup UpdateOps \cup ReplaceOps \cup {"FindOneAndUpdate"}

\* What an operation does before it selects a server: "nil" when it goes
\* on, "panic", or the error it returns.
Validate(in) ==
    IF in.op \in InsertOps THEN (IF in.idErr THEN "ErrInsertID" ELSE "nil")
    ELSE IF in.op \in UpdateOps THEN ensureDollarKey(in.doc)
    ELSE IF in.op \in ReplaceOps
         THEN (IF in.marshalErr THEN "ErrMarshal" ELSE ReplacementCheck(in.doc))
    ELSE IF in.op = "FindOneAndUpdate"
         THEN (IF in.marshalErr THEN "ErrMarshal" ELSE UpdateCheck(in.doc))
    ELSE "nil"

\* A bug the operations could have: the write concern is never looked at.
AlwaysAcknowledged(in) == TRUE

\* coll.writeConcern.Acknowledged()
Acknowledged(in) == in.acknowledged

WriteReturn(err, result, server, log, spawned) ==
    [status |-> "returned", err |-> err, result |-> result, server |-> server,
     log |-> log, spawned |-> spawned]

\* One write operation, from its call to its return.
Write(in) ==
    LET v == Validate(in)
    IN IF v = "panic"
       THEN [status |-> "panicked", err |-> "nil", result |-> "none", server |-> "nil",
             log |-> <<>>, spawned |-> FALSE]
       ELSE IF v # "nil" THEN WriteReturn(v, "nil", "nil", <<>>, FALSE)
       ELSE IF in.selectErr
       THEN WriteReturn("ErrSelectServer", "nil", "nil", <<"getWriteableServer">>, FALSE)
       ELSE IF ~Acknowledged(in)
       THEN WriteReturn("nil", "nil", "selected", <<"getWriteableServer", "go">>, TRUE)
       ELSE IF in.opErr
       THEN WriteReturn("ErrOperation", "nil", "selected",
                        <<"getWriteableServer", "operation">>, FALSE)
       ELSE WriteReturn("nil", "value", "selected",
                        <<"getWriteableServer", "operation">>, FALSE)

WriteInputs ==
    [op : WriteOps, acknowledged : BOOLEAN, doc : KeyDocs, idErr : BOOLEAN,
     marshalErr : BOOLEAN, selectErr : BOOLEAN, opErr : BOOLEAN]

CallWrite(in) ==
    /\ wpc = "idle"
    /\ win' = in
    /\ wout' = Write(in)
    /\ wpc' = Write(in).status
    /\ bg' = IF Write(in).spawned THEN "running" ELSE "none"

\* go func() { _ = insert() }(): the operation ends in its goroutine and
\* its error is dropped.
OperationFinishes ==
    /\ bg = "running"
    /\ bg' = IF win.opErr THEN "failed" ELSE "finished"
    /\ UNCHANGED <<wpc, win, wout>>

InitWrite == ClockInit /\ GoIdle /\ RestIdle

NextWrite ==
    \/ /\ wpc = "idle"
       /\ \E in \in WriteInputs : CallWrite(in)
       /\ UNCHANGED otherThanWrite
    \/ OperationFinishes /\ UNCHANGED otherThanWrite

SpecWrite == InitWrite /\ [][NextWrite]_vars

InLog(log, e) == \E i \in 1..Len(log) : log[i] = e

\* C6 as stated: with an unacknowledged write concern every write operation
\* returns a nil error.
C6_AlwaysNilError ==
    (wpc # "idle" /\ ~win.acknowledged) => (wpc = "returned" /\ wout.err = "nil")

\* C6, amended: with an unacknowledged write concern a write operation that
\* has passed its own argument checks and selected a writable server returns
\* a nil error with the operation left running in a goroutine, and a later
\* failure of the operation never reaches the caller; the errors it does
\* return are from before a server was selected.
C6_UnacknowledgedReturnsAtOnce ==
    (wpc # "idle" /\ ~win.acknowledged) =>
        /\ wout.server = "selected" =>
            /\ wpc = "returned"
            /\ wout.err = "nil"
            /\ bg # "none"
            /\ ~InLog(wout.log, "operation")
        /\ wout.err # "nil" => (wout.server = "nil" /\ bg = "none")
        /\ bg = "failed" => wout.err = "nil"

\* C6 witness: an unacknowledged operation has returned nil and has then
\* failed in its goroutine.
C6_Witness ==
    /\ wpc = "returned"
    /\ ~win.acknowledged
    /\ win.opErr
    /\ wout.err = "nil"
    /\ bg = "failed"

(***************************************************************************)
(* DocumentResult.Decode (src/mongo/document_result.go:24-38).  The cursor *)
(* behind the result is any implementation of the Cursor interface         *)
(* (src/mongo/private/roots/command/cursor.go:31-52): it holds the         *)
(* documents 1..n, hands them out one per Next, and may fail at one of its *)
(* Next calls; after that its Err is set and Next stays false.             *)
(***************************************************************************)
ResultCursors ==
    {[docs |-> [i \in 1..n |-> i], pos |-> 0, err |-> "nil", failAt |-> f] :
        n \in 0..MaxResultDocs, f \in 0..MaxResultDocs + 1}

\* Cursor.Next: true if there were no errors and there is a next result.
CursorNext(c) ==
    IF c.err # "nil" THEN [ok |-> FALSE, cur |-> c]
    ELSE IF c.failAt = c.pos + 1 THEN [ok |-> FALSE, cur |-> [c EXCEPT !.err = "ErrCursor"]]
    ELSE IF c.pos < Len(c.docs) THEN [ok |-> TRUE, cur |-> [c EXCEPT !.pos = @ + 1]]
    ELSE [ok |-> FALSE, cur |-> c]

\* What a Decode call did: its return value, the cursor it left, the cursor
\* methods it called, what Next returned ("none" if not called), the
\* cursor's error after Next, and the document put into v (0 for none).
DecodeReturn(ret, c, touched, next, v) ==
    [ret |-> ret, cur |-> c, touched |-> touched, next |-> next, curErr |-> c.err, v |-> v]

\* A bug Decode could have: ErrNoDocuments whenever Next is false.
NextFalseNoDocuments(c) == "ErrNoDocuments"

\* if err := dr.cur.Err(); err != nil { return err }; return ErrNoDocuments
NextFalse(c) == IF c.err # "nil" THEN c.err ELSE "ErrNoDocuments"

\* Decode from "if !dr.cur.Next(context.TODO())" on.
DecodeFromCursor(c, vIsNil, decodeErr) ==
    LET n == CursorNext(c)
    IN IF ~n.ok
       THEN DecodeReturn(NextFalse(n.cur), n.cur, <<"Next", "Err">>, "false", 0)
       ELSE IF vIsNil THEN DecodeReturn("nil", n.cur, <<"Next">>, "true", 0)
       ELSE IF decodeErr
       THEN DecodeReturn("ErrDecode", n.cur, <<"Next", "Decode">>, "true", 0)
       ELSE DecodeReturn("nil", n.cur, <<"Next", "Decode">>, "true", n.cur.docs[n.cur.pos])

\* A bug Decode could have: dr.err is not looked at.
DecodeIgnoringErr(d, c, vIsNil, decodeErr) == DecodeFromCursor(c, vIsNil, decodeErr)

\* func (dr *DocumentResult) Decode(v interface{}) error
Decode(d, c, vIsNil, decodeErr) ==
    IF d.err # "nil" THEN DecodeReturn(d.err, c, <<>>, "none", 0)
    ELSE DecodeFromCursor(c, vIsNil, decodeErr)

\* An operation returns its DocumentResult: its error, if it failed, and
\* its cursor.
NewDocumentResult(e, c) ==
    /\ dpc = "none"
    /\ dpc' = "made"
    /\ dr' = [err |-> e]
    /\ dcur' = c
    /\ UNCHANGED <<dcalls, dtouch>>

CallDecode(vIsNil, decodeErr) ==
    /\ dpc = "made"
    /\ Len(dcalls) < MaxDecodes
    /\ LET r == Decode(dr, dcur, vIsNil, decodeErr)
       IN /\ dcur' = r.cur
          /\ dcalls' = Append(dcalls, r)
          /\ dtouch' = dtouch \o r.touched
    /\ UNCHANGED <<dpc, dr>>

InitDecode == ClockInit /\ GoIdle /\ RestIdle

NextDecode ==
    \/ /\ dpc = "none"
       /\ \E e \in {"nil", "ErrOperation"} : \E c \in ResultCursors : NewDocumentResult(e, c)
       /\ UNCHANGED otherThanDecode
    \/ /\ dpc = "made"
       /\ \E vIsNil \in BOOLEAN : \E decodeErr \in BOOLEAN : CallDecode(vIsNil, decodeErr)
       /\ UNCHANGED otherThanDecode

SpecDecode == InitDecode /\ [][NextDecode]_vars

\* C9: when the operation behind the DocumentResult failed, every Decode
\* call returns that error, and no method of the cursor is called: the
\* cursor is where the operation left it.
C9_DecodeReturnsOperationError ==
    (dpc = "made" /\ dr.err # "nil") =>
        /\ \A i \in 1..Len(dcalls) : dcalls[i].ret = dr.err /\ dcalls[i].next = "none"
        /\ dtouch = <<>>
        /\ dcur.pos = 0 /\ dcur.err = "nil"

\* C9 witness: two Decode calls on a failed operation's result, whose cursor
\* holds documents.
C9_Witness ==
    /\ dpc = "made"
    /\ dr.err = "ErrOperation"
    /\ Len(dcur.docs) > 0
    /\ Len(dcalls) >= 2
    /\ dcalls[2].ret = "ErrOperation"

\* C10: on a result whose operation succeeded, a Decode call whose Next is
\* false returns ErrNoDocuments when the cursor has no error and the
\* cursor's error otherwise, and a Decode call returns nil only when its
\* Next was true.
C10_DecodeWithoutDocument ==
    (dpc = "made" /\ dr.err = "nil") =>
        \A i \in 1..Len(dcalls) :
            /\ (dcalls[i].next = "false" /\ dcalls[i].curErr = "nil") =>
                  dcalls[i].ret = "ErrNoDocuments"
            /\ (dcalls[i].next = "false" /\ dcalls[i].curErr # "nil") =>
                  (dcalls[i].ret = dcalls[i].curErr /\ dcalls[i].ret # "ErrNoDocuments")
            /\ dcalls[i].ret = "nil" => dcalls[i].next = "true"
            /\ dcalls[i].next # "none"

\* C10 witness: the first Decode found the cursor failing and returned its
\* error.
C10_Witness ==
    /\ dpc = "made"
    /\ dr.err = "nil"
    /\ Len(dcalls) >= 1
    /\ dcalls[1].next = "false"
    /\ dcalls[1].ret = "ErrCursor"

(***************************************************************************)
(* RoundTrip of the Insert, Update and Delete commands over OP_MSG, as     *)
(* src/core/integration/opmsg_test.go drives it.  The commands' encoding   *)
(* is not among the source files: it is modelled from the specification's  *)
(* "OP_MSG body".  A byte is a number 0..255, a key or a string the        *)
(* sequence of its bytes, a value its type byte and its encoded bytes, and *)
(* a document the sequence of its elements.                                *)
(***************************************************************************)
OpmsgWireVersion == 6

\* A 32-bit length, little-endian (n >= 0).
Int32LE(n) == <<n % 256, (n \div 256) % 256, (n \div 65536) % 256, (n \div 16777216) % 256>>

RECURSIVE MarshalElements(_)
MarshalElements(doc) ==
    IF doc = <<>> THEN <<>>
    ELSE <<Head(doc).Value.Type>> \o Head(doc).Key \o <<0>> \o Head(doc).Value.Data
         \o MarshalElements(Tail(doc))

\* Mutation of MarshalBSON: the length leaves out the terminator.
MarshalBSONShort(doc) ==
    LET b == MarshalElements(doc) IN Int32LE(Len(b) + 4) \o b \o <<0>>

\* doc.MarshalBSON(): length, elements, terminator.
MarshalBSON(doc) ==
    LET b == MarshalElements(doc) IN Int32LE(Len(b) + 5) \o b \o <<0>>

DocElem(key, val) == [Key |-> key, Value |-> val]

\* bson.String, bson.Int32, bson.Boolean, bson.Document
String(str) == [Type |-> 2, Data |-> Int32LE(Len(str) + 1) \o str \o <<0>>]
Int32(v) == [Type |-> 16, Data |-> Int32LE(v)]
BsonBoolean(b) == [Type |-> 8, Data |-> <<IF b THEN 1 ELSE 0>>]
Document(doc) == [Type |-> 3, Data |-> MarshalBSON(doc)]

\* An array of documents: a document with the keys "0", "1", ...
ArrayOfDocuments(docs) ==
    [Type |-> 4,
     Data |-> MarshalBSON([i \in 1..Len(docs) |-> DocElem(<<47 + i>>, Document(docs[i]))])]

\* The keys and names in use, as bytes.
KeyX == <<120>>
KeyY == <<121>>
KeyQ == <<113>>
KeyU == <<117>>
KeyLimit == <<108, 105, 109, 105, 116>>
KeyMulti == <<109, 117, 108, 116, 105>>
KeySet == <<36, 115, 101, 116>>
KeyDb == <<36, 100, 98>>
DbName == <<116>>
ColName == <<99>>

CommandName(kind) ==
    CASE kind = "insert" -> <<105, 110, 115, 101, 114, 116>>
      [] kind = "update" -> <<117, 112, 100, 97, 116, 101>>
      [] kind = "delete" -> <<100, 101, 108, 101, 116, 101>>

\* The field that holds the documents: documents, updates, deletes.
Identifier(kind) ==
    CASE kind = "insert" -> <<100, 111, 99, 117, 109, 101, 110, 116, 115>>
      [] kind = "update" -> <<117, 112, 100, 97, 116, 101, 115>>
      [] kind = "delete" -> <<100, 101, 108, 101, 116, 101, 115>>

\* The documents of the tests: {x: "a"}, {y: 50}, {}.
TestDocs == {<<DocElem(KeyX, String(<<97>>))>>, <<DocElem(KeyY, Int32(50))>>, <<>>}

\* {q: {}, u: {$set: d}, multi: true}
UpdateStatement(d) ==
    <<DocElem(KeyQ, Document(<<>>)),
      DocElem(KeyU, Document(<<DocElem(KeySet, Document(d))>>)),
      DocElem(KeyMulti, BsonBoolean(TRUE))>>

\* {q: d, limit: 0}
DeleteStatement(d) == <<DocElem(KeyQ, Document(d)), DocElem(KeyLimit, Int32(0))>>

Statements(kind) ==
    CASE kind = "insert" -> TestDocs
      [] kind = "update" -> {UpdateStatement(d) : d \in TestDocs}
      [] kind = "delete" -> {DeleteStatement(d) : d \in TestDocs}

SectionBody(document) == [Kind |-> "Body", Identifier |-> <<>>, Documents |-> <<document>>]

\* A bug the encoding could have: the documents in reverse order.
DocumentSequenceReversed(identifier, docs) ==
    [Kind |-> "DocumentSequence", Identifier |-> identifier,
     Documents |-> [i \in 1..Len(docs) |-> MarshalBSON(docs[Len(docs) + 1 - i])]]

\* {size, identifier, documents}: each document encoded, in the order given.
SectionDocumentSequence(identifier, docs) ==
    [Kind |-> "DocumentSequence", Identifier |-> identifier,
     Documents |-> [i \in 1..Len(docs) |-> MarshalBSON(docs[i])]]

\* The command's own document: {insert: <collection>, $db: <database>}.
CommandBody(cmd) ==
    <<DocElem(CommandName(cmd.kind), String(ColName)), DocElem(KeyDb, String(DbName))>>

\* Encode: OP_MSG with a body and a document sequence for a server that
\* speaks it, else one OP_QUERY document holding the documents as an array.
Encode(cmd, wireMax) ==
    IF wireMax >= OpmsgWireVersion
    THEN [Op |-> "OP_MSG",
          Sections |-> <<SectionBody(MarshalBSON(CommandBody(cmd))),
                         SectionDocumentSequence(Identifier(cmd.kind), cmd.Docs)>>]
    ELSE [Op |-> "OP_QUERY",
          Sections |-> <<SectionBody(MarshalBSON(
                           <<DocElem(CommandName(cmd.kind), String(ColName)),
                             DocElem(Identifier(cmd.kind), ArrayOfDocuments(cmd.Docs))>>))>>]

Commands ==
    UNION {[kind : {k}, Docs : {d \in SeqsUpTo(Statements(k), MaxCmdDocs) : Len(d) >= 1}] :
             k \in {"insert", "update", "delete"}}

\* cmd.RoundTrip(ctx, desc, conn): write the encoded command, read the
\* reply.  read is what the connection's read gives: "reply" or "ReadErr".
RoundTrip(cmd, wireMax, read) ==
    /\ mpc = "idle"
    /\ mpc' = "done"
    /\ mcmd' = [cmd |-> cmd, wireMax |-> wireMax, read |-> read]
    /\ written' = Append(written, Encode(cmd, wireMax))
    /\ mout' = IF read = "ReadErr" THEN [err |-> "ErrRead"] ELSE [err |-> "nil"]

InitMsg == ClockInit /\ GoIdle /\ RestIdle

NextMsg ==
    /\ mpc = "idle"
    /\ \E cmd \in Commands : \E wireMax \in {OpmsgWireVersion - 1, OpmsgWireVersion} :
         \E read \in {"reply", "ReadErr"} : RoundTrip(cmd, wireMax, read)
    /\ UNCHANGED otherThanMsg

SpecMsg == InitMsg /\ [][NextMsg]_vars

\* C8: a RoundTrip of a command with two or more documents on a server that
\* speaks OP_MSG has written one message of two sections, a body and a
\* document sequence holding the encodings of the command's documents in
\* their order; when the read failed it returned an error all the same.
C8_OneMessageTwoSections ==
    (mpc = "done" /\ mcmd.wireMax >= OpmsgWireVersion /\ Len(mcmd.cmd.Docs) >= 2) =>
        /\ Len(written) = 1
        /\ Len(written[1].Sections) = 2
        /\ written[1].Sections[1].Kind = "Body"
        /\ written[1].Sections[2].Kind = "DocumentSequence"
        /\ Len(written[1].Sections[2].Documents) = Len(mcmd.cmd.Docs)
        /\ \A i \in 1..Len(mcmd.cmd.Docs) :
              written[1].Sections[2].Documents[i] = MarshalBSON(mcmd.cmd.Docs[i])
        /\ mcmd.read = "ReadErr" => mout.err # "nil"

\* C8 witness: a delete of {x: "a"} and then {y: 50} whose read failed.
C8_Witness ==
    /\ mpc = "done"
    /\ mcmd.wireMax = OpmsgWireVersion
    /\ mcmd.cmd.kind = "delete"
    /\ mcmd.cmd.Docs = <<DeleteStatement(<<DocElem(KeyX, String(<<97>>))>>),
                         DeleteStatement(<<DocElem(KeyY, Int32(50))>>)>>
    /\ mcmd.read = "ReadErr"
    /\ mout.err = "ErrRead"
    /\ Len(written) = 1
    /\ written[1].Sections[2].Documents[2] =
          <<31, 0, 0, 0, 3, 113, 0, 12, 0, 0, 0, 16, 121, 0, 50, 0, 0, 0, 0,
            16, 108, 105, 109, 105, 116, 0, 0, 0, 0, 0, 0>>

\* C11 as stated: on a result whose operation succeeded with at least one
\* document and whose cursor never fails, every Decode call, a second or
\* later one included, finds a document, and the document it puts into v is
\* the first document of the result.
C11_EveryDecodeGivesFirstDocument ==
    (dpc = "made" /\ dr.err = "nil" /\ Len(dcur.docs) >= 1 /\ dcur.failAt = 0) =>
        \A i \in 1..Len(dcalls) :
            /\ dcalls[i].ret # "ErrNoDocuments"
            /\ dcalls[i].v # 0 => dcalls[i].v = dcur.docs[1]

(***************************************************************************)
(* Option bundles (src/mongo/insertopt/insertopt.go).  A bundle is a       *)
(* linked list whose head is the option added last; it is modelled as the  *)
(* sequence of its cells from the head on, the sentinel oneBundle /        *)
(* manyBundle (or a nil pointer) being the end of the sequence.  A cell    *)
(* holds an option, a nil interface value, or a nested bundle.             *)
(***************************************************************************)
OptionCell(type, val) == [kind |-> "option", type |-> type, val |-> val, sub |-> <<>>]
NilCell == [kind |-> "nil", type |-> "", val |-> 0, sub |-> <<>>]
BundleCell(ob) == [kind |-> "bundle", type |-> "", val |-> 0, sub |-> ob]

\* BypassDocumentValidation(b), WriteConcern(wc), Ordered(b)
BypassDocumentValidation(b) == OptionCell("OptBypassDocumentValidation", IF b THEN 1 ELSE 0)
WriteConcern(wc) == OptionCell("OptWriteConcern", wc)
Ordered(b) == OptionCell("OptOrdered", IF b THEN 1 ELSE 0)

\* The options of each family: Ordered is a Many option only.
OptionsOf(family) ==
    {BypassDocumentValidation(TRUE), BypassDocumentValidation(FALSE), WriteConcern(1)}
    \cup (IF family = "Many" THEN {Ordered(TRUE)} ELSE {})

\* ConvertOneOption / ConvertManyOption: the option.InsertOptioner of a cell.
ConvertOption(cell) == [type |-> cell.type, val |-> cell.val]

\* The zero value of a slot of make([]option.InsertOptioner, listLen).
NoOption == [type |-> "", val |-> 0]

\* bundleLength: the loop ends at the first cell whose option is nil.
RECURSIVE bundleLength(_)
bundleLength(ob) ==
    IF ob = <<>> \/ Head(ob).kind = "nil" THEN 0
    ELSE (IF Head(ob).kind = "bundle" THEN bundleLength(Head(ob).sub) ELSE 1)
         + bundleLength(Tail(ob))

\* A bug unbundle could have: nested options start one slot early.
NestedStartEarly(index, n) == index - n

\* startIndex := index - len(nestedOptions) + 1
NestedStart(index, n) == index - n + 1

\* The loop of unbundle from listHead on, writing from slot index down
\* (slots are numbered from 1).
RECURSIVE unbundleFrom(_, _, _)
unbundleFrom(listHead, options, index) ==
    IF listHead = <<>> \/ Head(listHead).kind = "nil" THEN options
    ELSE IF Head(listHead).kind = "bundle"
    THEN LET sub == Head(listHead).sub
             nestedOptions ==
                 unbundleFrom(sub, [i \in 1..bundleLength(sub) |-> NoOption], bundleLength(sub))
             startIndex == NestedStart(index, Len(nestedOptions))
         IN unbundleFrom(Tail(listHead),
                [i \in 1..Len(options) |->
                    IF startIndex <= i /\ i < startIndex + Len(nestedOptions)
                    THEN nestedOptions[i - startIndex + 1] ELSE options[i]],
                index - Len(nestedOptions))
    ELSE unbundleFrom(Tail(listHead),
                [i \in 1..Len(options) |->
                    IF i = index THEN ConvertOption(Head(listHead)) ELSE options[i]],
                index - 1)

\* func (ob *OneBundle) unbundle(), func (mb *ManyBundle) unbundle()
unbundle(ob) ==
    unbundleFrom(ob, [i \in 1..bundleLength(ob) |-> NoOption], bundleLength(ob))

\* options without its slot i: append(options[:i], options[i+1:]...)
RemoveAt(options, i) == [j \in 1..Len(options) - 1 |-> IF j < i THEN options[j] ELSE options[j + 1]]

\* A bug Unbundle could have: the first option of each type is kept.
DeduplicateKeepFirst(options) ==
    LET keep == {i \in 1..Len(options) :
                    \A j \in 1..Len(options) : j < i => options[j].type # options[i].type}
        F[i \in 0..Len(options)] ==
            IF i = 0 THEN <<>>
            ELSE IF i \in keep THEN Append(F[i - 1], options[i]) ELSE F[i - 1]
    IN F[Len(options)]

\* The loop of Unbundle from slot i down, optionsSet holding the types seen.
RECURSIVE DeduplicateFrom(_, _, _)
DeduplicateFrom(options, i, optionsSet) ==
    IF i < 1 THEN options
    ELSE IF options[i].type \in optionsSet
    THEN DeduplicateFrom(RemoveAt(options, i), i - 1, optionsSet)
    ELSE DeduplicateFrom(options, i - 1, optionsSet \cup {options[i].type})

\* "iterate backwards and make dedup slice"
Deduplicate(options) == DeduplicateFrom(options, Len(options), {})

\* func (ob *OneBundle) Unbundle(deduplicate bool)
Unbundle(ob, deduplicate) ==
    IF deduplicate THEN Deduplicate(unbundle(ob)) ELSE unbundle(ob)

\* The number of cells of a bundle, nested ones included.
RECURSIVE CellCount(_)
CellCount(ob) ==
    IF ob = <<>> THEN 0
    ELSE 1 + CellCount(Head(ob).sub) + CellCount(Tail(ob))

RECURSIVE StackCells(_)
StackCells(st) == IF st = <<>> THEN 0 ELSE CellCount(Head(st)) + StackCells(Tail(st))

\* BundleOne() / BundleMany(), or a nil *OneBundle / *ManyBundle: a bundle
\* with no option yet.
NewBundle(family) ==
    /\ bpc = "idle"
    /\ bpc' = "building"
    /\ bfamily' = family
    /\ bstack' = <<<<>>>>
    /\ UNCHANGED <<bdedup, bres>>

\* One more cell at the head of the innermost bundle: the next argument of
\* BundleOne / BundleMany, or a chained builder call.
AddCell(cell) ==
    /\ bpc = "building"
    /\ StackCells(bstack) < MaxCells
    /\ bstack' = <<<<cell>> \o Head(bstack)>> \o Tail(bstack)
    /\ UNCHANGED <<bpc, bfamily, bdedup, bres>>

\* The next argument is itself a call of BundleOne / BundleMany.
OpenNested ==
    /\ bpc = "building"
    /\ Len(bstack) <= MaxNesting
    /\ StackCells(bstack) + Len(bstack) - 1 < MaxCells
    /\ bstack' = <<<<>>>> \o bstack
    /\ UNCHANGED <<bpc, bfamily, bdedup, bres>>

\* The nested call returns: its bundle is the next argument of the
\* enclosing one.
CloseNested ==
    /\ bpc = "building"
    /\ Len(bstack) >= 2
    /\ bstack' = <<<<BundleCell(bstack[1])>> \o bstack[2]>> \o Tail(Tail(bstack))
    /\ UNCHANGED <<bpc, bfamily, bdedup, bres>>

CallUnbundle(deduplicate) ==
    /\ bpc = "building"
    /\ Len(bstack) = 1
    /\ bpc' = "done"
    /\ bdedup' = deduplicate
    /\ bres' = Unbundle(bstack[1], deduplicate)
    /\ UNCHANGED <<bfamily, bstack>>

InitBundle == ClockInit /\ GoIdle /\ RestIdle

NextBundle ==
    \/ (\E family \in {"One", "Many"} : NewBundle(family)) /\ UNCHANGED otherThanBundle
    \/ /\ bpc = "building"
       /\ \E cell \in OptionsOf(bfamily) : AddCell(cell)
       /\ UNCHANGED otherThanBundle
    \/ AddCell(NilCell) /\ UNCHANGED otherThanBundle
    \/ OpenNested /\ UNCHANGED otherThanBundle
    \/ CloseNested /\ UNCHANGED otherThanBundle
    \/ (\E deduplicate \in BOOLEAN : CallUnbundle(deduplicate)) /\ UNCHANGED otherThanBundle

SpecBundle == InitBundle /\ [][NextBundle]_vars

\* The options of a bundle in the order they were added, a nested bundle
\* standing for its own options and a nil option for nothing.
RECURSIVE InOrderAdded(_)
InOrderAdded(ob) ==
    IF ob = <<>> THEN <<>>
    ELSE InOrderAdded(Tail(ob)) \o
         (CASE Head(ob).kind = "bundle" -> InOrderAdded(Head(ob).sub)
            [] Head(ob).kind = "nil" -> <<>>
            [] Head(ob).kind = "option" -> <<ConvertOption(Head(ob))>>)

\* A nil option occurs in the bundle, at whatever depth.
RECURSIVE HasNil(_)
HasNil(ob) ==
    /\ ob # <<>>
    /\ \/ Head(ob).kind = "nil"
       \/ HasNil(Head(ob).sub)
       \/ HasNil(Tail(ob))

\* The number of cells that hold an option, at whatever depth.
RECURSIVE CountOptions(_)
CountOptions(ob) ==
    IF ob = <<>> THEN 0
    ELSE (IF Head(ob).kind = "option" THEN 1 ELSE 0)
         + CountOptions(Head(ob).sub) + CountOptions(Tail(ob))

LastOfEachType(F) ==
    LET G[i \in 0..Len(F)] ==
            IF i = 0 THEN <<>>
            ELSE IF \A j \in 1..Len(F) : j > i => F[j].type # F[i].type
                 THEN Append(G[i - 1], F[i]) ELSE G[i - 1]
    IN G[Len(F)]

TypesOf(F) == {F[i].type : i \in 1..Len(F)}

C14_NilOptionIgnored ==
    (bpc = "done" /\ ~bdedup /\ HasNil(bstack[1])) => bres = InOrderAdded(bstack[1])

(***************************************************************************)
(* Struct tags (src/bson-codec-design/bson/internal_reader.go:111-162).    *)
(* A string is the sequence of its symbols; the flag words, the comma, the *)
(* dash and the letters of names are symbols.  A struct tag is either      *)
(* `bson:"<value>"`, a tag in key:"value" form with no bson key, or a raw  *)
(* string with no colon in it (the empty tag included).                    *)
(***************************************************************************)
TagSymbols == {",", "-", "k", "omitempty", "minsize", "truncate", "inline"}

TagValues == SeqsUpTo(TagSymbols, MaxTagLen)

StructTagValues ==
    [form : {"bson", "raw"}, value : TagValues] \cup {[form |-> "other", value |-> <<>>]}

FieldNames == {<<"A">>, <<"a">>, <<"A", "B">>}

StructFields == [Name : FieldNames, Tag : StructTagValues]

\* string(sf.Tag)
TagString(tag) ==
    CASE tag.form = "bson" -> <<"bson", ":", "\"">> \o tag.value \o <<"\"">>
      [] tag.form = "other" -> <<"json", ":", "\"", "k", "\"">>
      [] tag.form = "raw" -> tag.value

\* sf.Tag.Lookup(key)
Lookup(tag, key) ==
    IF key = "bson" /\ tag.form = "bson" THEN [value |-> tag.value, ok |-> TRUE]
    ELSE [value |-> <<>>, ok |-> FALSE]

\* strings.Contains(s, c) for a one-symbol c
Contains(s, c) == \E i \in 1..Len(s) : s[i] = c

\* strings.Split(s, sep) for a one-symbol sep: Split of the empty string is
\* one empty component.
RECURSIVE Split(_, _)
Split(s, sep) ==
    IF ~Contains(s, sep) THEN <<s>>
    ELSE LET i == CHOOSE k \in 1..Len(s) : s[k] = sep /\ \A j \in 1..k - 1 : s[j] # sep
         IN <<SubSeq(s, 1, i - 1)>> \o Split(SubSeq(s, i + 1, Len(s)), sep)

ToLowerSymbol(c) ==
    CASE c = "A" -> "a"
      [] c = "B" -> "b"
      [] c = "F" -> "f"
      [] OTHER -> c

\* strings.ToLower
ToLower(s) == [i \in 1..Len(s) |-> ToLowerSymbol(s[i])]

StructTags(name, omitEmpty, minSize, truncate, inline, skip) ==
    [Name |-> name, OmitEmpty |-> omitEmpty, MinSize |-> minSize, Truncate |-> truncate,
     Inline |-> inline, Skip |-> skip]

\* Some component of the split tag is the word w: the loop looks at every
\* component, the first included.
SomeComponentIs(parts, w) == \E idx \in 1..Len(parts) : parts[idx] = <<w>>

DefaultStructTagParser(sf) ==
    LET key == ToLower(sf.Name)
        l == Lookup(sf.Tag, "bson")
        parts == Split(l.value, ",")
    IN IF l.ok
       THEN StructTags(IF parts[1] # <<>> THEN parts[1] ELSE key,
                       SomeComponentIs(parts, "omitempty"),
                       SomeComponentIs(parts, "minsize"),
                       SomeComponentIs(parts, "truncate"),
                       SomeComponentIs(parts, "inline"),
                       l.value = <<"-">> \/ TagString(sf.Tag) = <<"-">>)
       ELSE IF ~Contains(TagString(sf.Tag), ":") /\ Len(TagString(sf.Tag)) > 0
       THEN StructTags(TagString(sf.Tag), FALSE, FALSE, FALSE, FALSE, FALSE)
       ELSE StructTags(key, FALSE, FALSE, FALSE, FALSE, FALSE)

ParseStructTags(sf) ==
    /\ tpc = "idle"
    /\ tpc' = "parsed"
    /\ tsf' = sf
    /\ tst' = DefaultStructTagParser(sf)
    /\ UNCHANGED <<tenc, tdoc>>


(***************************************************************************)
(* Encoding a struct with the parsed tags (src/bson/encode_test.go:627-712 *)
(* gives the documents expected).  An int64 is its eight bytes, least      *)
(* significant first.                                                      *)
(***************************************************************************)
Int64Values ==
    {<<0, 0, 0, 0, 0, 0, 0, 0>>,                      \* 0
     <<57, 48, 0, 0, 0, 0, 0, 0>>,                    \* 12345
     <<255, 255, 255, 255, 255, 255, 255, 255>>,      \* -1
     <<255, 255, 255, 127, 0, 0, 0, 0>>,              \* math.MaxInt32
     <<0, 0, 0, 128, 0, 0, 0, 0>>,                    \* math.MaxInt32 + 1
     <<0, 0, 0, 128, 255, 255, 255, 255>>,            \* math.MinInt32
     <<255, 255, 255, 127, 255, 255, 255, 255>>,      \* math.MinInt32 - 1
     <<5, 0, 0, 0, 1, 0, 0, 0>>,                      \* 1<<32 + 5
     <<255, 255, 255, 255, 255, 255, 255, 127>>}      \* math.MaxInt64

StringValues == {<<>>, <<98>>}

FieldValues ==
    [Type : {"int64"}, Value : Int64Values, inlined : BOOLEAN]
        \cup [Type : {"string"}, Value : StringValues, inlined : BOOLEAN]

\* The number as four 16-bit limbs, most significant first, the first signed.
Limbs(v) ==
    LET top == v[7] + 256 * v[8]
    IN <<IF top >= 32768 THEN top - 65536 ELSE top,
         v[5] + 256 * v[6], v[3] + 256 * v[4], v[1] + 256 * v[2]>>

\* a <= b on limbs
RECURSIVE LimbsLeq(_, _)
LimbsLeq(a, b) ==
    IF a = <<>> THEN TRUE
    ELSE IF Head(a) # Head(b) THEN Head(a) < Head(b)
    ELSE LimbsLeq(Tail(a), Tail(b))

MinInt32Limbs == <<-1, 65535, 32768, 0>>
MaxInt32Limbs == <<0, 0, 32767, 65535>>

\* Mutation of FitsInt32: the value is compared as an unsigned number.
FitsUint32(v) == SubSeq(v, 5, 8) = <<0, 0, 0, 0>>

\* math.MinInt32 <= v && v <= math.MaxInt32
FitsInt32(v) == LimbsLeq(MinInt32Limbs, Limbs(v)) /\ LimbsLeq(Limbs(v), MaxInt32Limbs)

\* bson.Int64
Int64(v) == [Type |-> 18, Data |-> v]

\* The value of a field: int32(v) keeps the low four bytes.
EncodeValue(val, st) ==
    CASE val.Type = "string" -> String(val.Value)
      [] val.Type = "int64" ->
            IF st.MinSize /\ FitsInt32(val.Value)
            THEN [Type |-> 16, Data |-> SubSeq(val.Value, 1, 4)]
            ELSE Int64(val.Value)

\* The zero value of the field's type
IsZero(val) ==
    CASE val.Type = "string" -> val.Value = <<>>
      [] val.Type = "int64" -> val.Value = <<0, 0, 0, 0, 0, 0, 0, 0>>

\* An exported field's name starts with an upper-case letter.
IsExported(name) == name[1] \in {"A", "B", "F"}

\* The elements one field of a struct gives.
EncodeField(sf, val) ==
    LET st == DefaultStructTagParser(sf)
    IN IF ~IsExported(sf.Name) \/ st.Skip THEN <<>>
       ELSE IF st.OmitEmpty /\ IsZero(val) THEN <<>>
       ELSE <<DocElem(st.Name, EncodeValue(val, st))>>

\* struct { Foo struct { <sf> } `bson:",inline"` }
InlineHolder == [Name |-> <<"F", "o", "o">>, Tag |-> [form |-> "bson", value |-> <<",", "inline">>]]

\* The document for a struct with the one field sf, or for a struct holding
\* that struct inlined: an inlined struct's fields are the holder's.
EncodeStruct(sf, val) ==
    IF val.inlined
    THEN LET st == DefaultStructTagParser(InlineHolder)
         IN IF ~IsExported(InlineHolder.Name) \/ st.Skip THEN <<>>
            ELSE IF st.Inline THEN EncodeField(sf, val)
            ELSE <<>>
    ELSE EncodeField(sf, val)

EncodeParsedStruct(val) ==
    /\ tpc = "parsed"
    /\ tpc' = "encoded"
    /\ tenc' = val
    /\ tdoc' = EncodeStruct(tsf, val)
    /\ UNCHANGED <<tsf, tst>>

InitTags == ClockInit /\ GoIdle /\ RestIdle

NextTags ==
    \/ tpc = "idle" /\ \E sf \in StructFields : ParseStructTags(sf) /\ UNCHANGED otherThanTags
    \/ tpc = "parsed" /\ \E val \in FieldValues :
           EncodeParsedStruct(val) /\ UNCHANGED otherThanTags

SpecTags == InitTags /\ [][NextTags]_vars


\* The first comma-separated component of a tag value: what precedes the
\* first comma, or all of it.
FirstComponent(value) ==
    IF \E i \in 1..Len(value) : value[i] = ","
    THEN SubSeq(value, 1, (CHOOSE i \in 1..Len(value) :
                               value[i] = "," /\ \A j \in 1..i - 1 : value[j] # ",") - 1)
    ELSE value

\* The tag of the field is "-", as a bson tag or as the whole struct tag.
TagIsDash(sf) == sf.Tag.value = <<"-">> /\ sf.Tag.form \in {"bson", "raw"}

\* C15: the parser names a field by its lower-cased Go name unless the bson
\* tag's first component is non-empty, which is then the name; a struct tag
\* with no key:value syntax is taken whole as the name; the tag "-" sets
\* Skip; a skipped or unexported field never appears in the encoded document.
C15_NamesAndSkip ==
    tpc # "idle" =>
        /\ tsf.Tag.form = "bson" =>
               tst.Name = IF FirstComponent(tsf.Tag.value) # <<>>
                          THEN FirstComponent(tsf.Tag.value)
                          ELSE ToLower(tsf.Name)
        /\ (tsf.Tag.form = "raw" /\ tsf.Tag.value # <<>>) => tst.Name = tsf.Tag.value
        /\ (tsf.Tag.form = "other" \/ (tsf.Tag.form = "raw" /\ tsf.Tag.value = <<>>)) =>
               tst.Name = ToLower(tsf.Name)
        /\ TagIsDash(tsf) => tst.Skip
        /\ (tpc = "encoded" /\ (tst.Skip \/ tsf.Name[1] \notin {"A", "B", "F"})) => tdoc = <<>>

\* The flag word w is a component of the tag value after the first comma.
FlagWordAfterComma(value, w) ==
    \E i \in 2..Len(value) :
        /\ value[i] = w
        /\ value[i - 1] = ","
        /\ i = Len(value) \/ value[i + 1] = ","

\* C16: in a bson tag "[<key>][,<flag1>[,<flag2>]]" the first component gives
\* only the name, and OmitEmpty, MinSize, Truncate and Inline are set exactly
\* by the flag words after the first comma.
C16_FlagsOnlyAfterFirstComma ==
    (tpc # "idle" /\ tsf.Tag.form = "bson") =>
        /\ tst.OmitEmpty <=> FlagWordAfterComma(tsf.Tag.value, "omitempty")
        /\ tst.MinSize <=> FlagWordAfterComma(tsf.Tag.value, "minsize")
        /\ tst.Truncate <=> FlagWordAfterComma(tsf.Tag.value, "truncate")
        /\ tst.Inline <=> FlagWordAfterComma(tsf.Tag.value, "inline")


\* The eight bytes of the int64 equal to the int32 with the four bytes d.
SignExtend(d) ==
    d \o (IF d[4] >= 128 THEN <<255, 255, 255, 255>> ELSE <<0, 0, 0, 0>>)

\* C17: an int64 field tagged minsize is encoded as an int32 exactly when
\* its value lies in the int32 range, with the value preserved, and as an
\* int64 otherwise, also when the field belongs to an inlined inner struct.
C17_MinSizeInt64 ==
    (tpc = "encoded" /\ tenc.Type = "int64" /\ tst.MinSize /\ tdoc # <<>>) =>
        /\ Len(tdoc) = 1
        /\ tdoc[1].Value.Type \in {16, 18}
        /\ tdoc[1].Value.Type = 16 <=> SignExtend(SubSeq(tenc.Value, 1, 4)) = tenc.Value
        /\ tdoc[1].Value.Type = 16 =>
               (Len(tdoc[1].Value.Data) = 4 /\ SignExtend(tdoc[1].Value.Data) = tenc.Value)
        /\ tdoc[1].Value.Type = 18 => tdoc[1].Value.Data = tenc.Value

C17_Witness ==
    /\ tpc = "encoded"
    /\ tenc = [Type |-> "int64", Value |-> <<57, 48, 0, 0, 0, 0, 0, 0>>, inlined |-> TRUE]
    /\ tst.MinSize
    /\ tdoc = <<DocElem(<<"a">>, [Type |-> 16, Data |-> <<57, 48, 0, 0>>])>>


(***************************************************************************)
(* Documents as bytes (src/bson/encode_test.go:19-220,                     *)
(* src/bson/extjson/builder_test.go:11-235).  A Document is the sequence   *)
(* of its elements; an element is a key and a value; a value has a type    *)
(* byte and either its bytes (Data) or, for a subdocument or an array, its *)
(* elements (Elems).                                                       *)
(***************************************************************************)
TypeDouble == 1
TypeString == 2
TypeDocument == 3
TypeArray == 4
TypeBoolean == 8
TypeNull == 10
TypeInt32 == 16
TypeInt64 == 18

Scalar(type, data) == [Type |-> type, Data |-> data, Elems |-> <<>>]

Container(type, elems) == [Type |-> type, Data |-> <<>>, Elems |-> elems]

\* The values of the fixtures: null, false, "foo", 4 as an int64.
ScalarValues ==
    {Scalar(TypeNull, <<>>), Scalar(TypeBoolean, <<0>>),
     Scalar(TypeString, <<4, 0, 0, 0, 102, 111, 111, 0>>),
     Scalar(TypeInt64, <<4, 0, 0, 0, 0, 0, 0, 0>>)}

\* The keys "a" and "efg"
ElementKeys == {<<97>>, <<101, 102, 103>>}

\* The key of the element at index i of an array: "0", "1", ...
ArrayKey(i) == <<48 + i>>

\* The bytes of a Document: the values of its subdocuments and arrays are
\* documents written the same way.
RECURSIVE MarshalDocument(_)
MarshalDocument(elems) ==
    MarshalBSON([i \in 1..Len(elems) |->
        DocElem(elems[i].Key,
                [Type |-> elems[i].Value.Type,
                 Data |-> IF elems[i].Value.Type \in {TypeDocument, TypeArray}
                          THEN MarshalDocument(elems[i].Value.Elems)
                          ELSE elems[i].Value.Data])])

\* The little-endian int32 at b[pos]
ReadInt32(b, pos) ==
    b[pos] + 256 * b[pos + 1] + 65536 * b[pos + 2] + 16777216 * b[pos + 3]

\* The position of the NUL that ends the cstring starting at b[pos]
CStringEnd(b, pos) ==
    CHOOSE i \in pos..Len(b) : b[i] = 0 /\ \A j \in pos..i - 1 : b[j] # 0

\* The number of bytes of the value of the given type starting at b[pos]
ValueLength(type, b, pos) ==
    CASE type = TypeNull -> 0
      [] type = TypeBoolean -> 1
      [] type = TypeInt32 -> 4
      [] type \in {TypeDouble, TypeInt64} -> 8
      [] type = TypeString -> 4 + ReadInt32(b, pos)
      [] type \in {TypeDocument, TypeArray} -> ReadInt32(b, pos)

\* Mutation of ReadScalar: the bytes of the value are dropped.
ReadScalarEmpty(type, raw) == Scalar(type, <<>>)

ReadScalar(type, raw) == Scalar(type, raw)

\* The elements of the document b from b[pos] up to its terminator
RECURSIVE ReadElements(_, _)
ReadElements(b, pos) ==
    IF pos >= Len(b) \/ b[pos] = 0 THEN <<>>
    ELSE LET type == b[pos]
             kend == CStringEnd(b, pos + 1)
             vpos == kend + 1
             vlen == ValueLength(type, b, vpos)
             raw == SubSeq(b, vpos, vpos + vlen - 1)
         IN <<[Key |-> SubSeq(b, pos + 1, kend - 1),
               Value |-> IF type \in {TypeDocument, TypeArray}
                         THEN Container(type, ReadElements(raw, 5))
                         ELSE ReadScalar(type, raw)]>>
            \o ReadElements(b, vpos + vlen)

\* EncodeDocument of bytes: the Document they hold
ReadDocument(b) == ReadElements(b, 5)

\* NewFromIOReader: the length is read first, then the rest of that many bytes.
NewFromIOReader(stream) == SubSeq(stream, 1, ReadInt32(stream, 1))

EncodableForms == {"[]byte", "Reader", "io.Reader", "Marshaler"}

\* What Encode writes for an encoded document handed over in the given form
EncodeEncoded(form, b) ==
    CASE form \in {"[]byte", "Reader"} -> b
      [] form = "io.Reader" -> NewFromIOReader(b)
      [] form = "Marshaler" -> MarshalDocument(ReadDocument(b))

\* The elements in a sequence of elements, nested ones included
RECURSIVE CountElements(_)
CountElements(elems) ==
    IF elems = <<>> THEN 0
    ELSE 1 + CountElements(Head(elems).Value.Elems) + CountElements(Tail(elems))

RECURSIVE CountFrames(_)
CountFrames(stack) ==
    IF stack = <<>> THEN 0
    ELSE CountElements(Head(stack).Elems) + 1 + CountFrames(Tail(stack))

\* The elements appended so far and the open subdocuments and arrays
NodeCount == CountFrames(estack) - 1

\* The key the next element of the innermost document or array gets
KeysHere ==
    IF estack[1].Type = TypeArray THEN {ArrayKey(Len(estack[1].Elems))} ELSE ElementKeys

AppendTo(frame, key, val) ==
    [frame EXCEPT !.Elems = Append(@, [Key |-> key, Value |-> val])]

\* doc.Append(EC.X(key, ...)) / a scalar member read by the builder
AppendValue(key, val) ==
    /\ epc = "building"
    /\ NodeCount < MaxNodes
    /\ key \in KeysHere
    /\ estack' = <<AppendTo(estack[1], key, val)>> \o Tail(estack)
    /\ UNCHANGED <<epc, ebytes, edec, eform, eout>>

\* A subdocument or an array is begun.
StartContainer(type, key) ==
    /\ epc = "building"
    /\ NodeCount < MaxNodes
    /\ Len(estack) <= MaxDepth
    /\ key \in KeysHere
    /\ estack' = <<[Type |-> type, Key |-> key, Elems |-> <<>>]>> \o estack
    /\ UNCHANGED <<epc, ebytes, edec, eform, eout>>

\* The innermost subdocument or array is complete and becomes an element.
EndContainer ==
    /\ epc = "building"
    /\ Len(estack) > 1
    /\ estack' = <<AppendTo(estack[2], estack[1].Key,
                            Container(estack[1].Type, estack[1].Elems))>>
                 \o Tail(Tail(estack))
    /\ UNCHANGED <<epc, ebytes, edec, eform, eout>>

\* NewEncoder(&buf).Encode(doc) or builder.WriteDocument(buf)
WriteBytes(writer) ==
    /\ epc = "building"
    /\ Len(estack) = 1
    /\ epc' = "encoded"
    /\ ebytes' = MarshalDocument(estack[1].Elems)
    /\ eform' = writer
    /\ UNCHANGED <<estack, edec, eout>>

EncoderEncode == WriteBytes("Encoder")

WriteDocument == WriteBytes("DocumentBuilder")

\* NewDocumentEncoder().EncodeDocument(b)
EncodeDocument ==
    /\ epc = "encoded"
    /\ epc' = "decoded"
    /\ edec' = ReadDocument(ebytes)
    /\ UNCHANGED <<estack, ebytes, eform, eout>>

\* NewEncoder(&buf).Encode(v) for the bytes written, v in one of the forms
EncodeAgain(form) ==
    /\ epc = "decoded"
    /\ epc' = "rewritten"
    /\ eform' = form
    /\ eout' = EncodeEncoded(form, ebytes)
    /\ UNCHANGED <<estack, ebytes, edec>>

InitCodec == ClockInit /\ GoIdle /\ RestIdle

NextCodec ==
    \/ epc = "building" /\ \E key \in KeysHere, val \in ScalarValues :
           AppendValue(key, val) /\ UNCHANGED otherThanCodec
    \/ epc = "building" /\ \E type \in {TypeDocument, TypeArray}, key \in KeysHere :
           StartContainer(type, key) /\ UNCHANGED otherThanCodec
    \/ EndContainer /\ UNCHANGED otherThanCodec
    \/ EncoderEncode /\ UNCHANGED otherThanCodec
    \/ WriteDocument /\ UNCHANGED otherThanCodec
    \/ EncodeDocument /\ UNCHANGED otherThanCodec
    \/ \E form \in EncodableForms : EncodeAgain(form) /\ UNCHANGED otherThanCodec

SpecCodec == InitCodec /\ [][NextCodec]_vars


\* The bytes of the subdocuments and arrays that are values of the elements
\* of the document b, from b[pos] on
RECURSIVE NestedDocuments(_, _)
NestedDocuments(b, pos) ==
    IF pos >= Len(b) \/ b[pos] = 0 THEN <<>>
    ELSE LET vpos == CStringEnd(b, pos + 1) + 1
             vlen == ValueLength(b[pos], b, vpos)
         IN (IF b[pos] \in {TypeDocument, TypeArray}
             THEN <<SubSeq(b, vpos, vpos + vlen - 1)>> ELSE <<>>)
            \o NestedDocuments(b, vpos + vlen)

\* b starts with its own length, ends with a NUL, and so does every document
\* nested in it.
RECURSIVE LengthPrefixed(_)
LengthPrefixed(b) ==
    /\ Len(b) >= 5
    /\ ReadInt32(b, 1) = Len(b)
    /\ b[Len(b)] = 0
    /\ \A i \in 1..Len(NestedDocuments(b, 5)) : LengthPrefixed(NestedDocuments(b, 5)[i])

\* C18: every document the encoder or the extended-JSON builder writes, at
\* every nesting level, starts with its total byte length as a little-endian
\* int32 (prefix and trailing NUL included) and ends with 0x00; a document
\* with no elements is the five bytes 05 00 00 00 00.
C18_LengthPrefixAndTerminator ==
    epc # "building" =>
        /\ LengthPrefixed(ebytes)
        /\ estack[1].Elems = <<>> => ebytes = <<5, 0, 0, 0, 0>>

\* { "d": { "efg": 4 } } written by the builder (builder_test.go:129-146)
C18_Witness ==
    /\ epc = "encoded"
    /\ eform = "DocumentBuilder"
    /\ estack[1].Elems =
           <<[Key |-> <<97>>,
              Value |-> Container(TypeDocument,
                            <<[Key |-> <<101, 102, 103>>,
                               Value |-> Scalar(TypeInt64, <<4, 0, 0, 0, 0, 0, 0, 0>>)]>>)]>>
    /\ ebytes = <<26, 0, 0, 0, 3, 97, 0,
                  18, 0, 0, 0, 18, 101, 102, 103, 0, 4, 0, 0, 0, 0, 0, 0, 0, 0, 0>>

\* C19: EncodeDocument applied to the bytes Encode wrote for a document D
\* gives a document equal to D, and Encode applied to those bytes handed over
\* as []byte, Reader, io.Reader or Marshaler writes the same bytes.
C19_RoundTrip ==
    /\ epc \in {"decoded", "rewritten"} => edec = estack[1].Elems
    /\ epc = "rewritten" => eout = ebytes

\* An array with a string in it, inside a document, read back and rewritten
\* from an io.Reader
C19_Witness ==
    /\ epc = "rewritten"
    /\ eform = "io.Reader"
    /\ Len(edec) = 2
    /\ edec[1].Value.Type = TypeArray
    /\ Len(edec[1].Value.Elems) = 1
    /\ edec[1].Value.Elems[1].Value.Type = TypeString
    /\ eout = ebytes


(***************************************************************************)
(* Server selection of Collection (src/core/integration/cursor_test.go:    *)
(* 276-322 and the first lines of every operation).  A selector is the     *)
(* sequence of the filters it applies; a server has a kind and an average  *)
(* round-trip time.                                                        *)
(***************************************************************************)
ReadPrefModes == {"primary", "primaryPreferred", "secondary", "secondaryPreferred", "nearest"}

LocalThreshold == 1

RoundTripTimes == 1..3

ServerDescriptions == [kind : {"RSPrimary", "RSSecondary"}, rtt : RoundTripTimes]

\* The servers of a replica set: at most one of them is the primary.
Topologies ==
    {t \in SeqsUpTo(ServerDescriptions, MaxServers) :
        Cardinality({i \in 1..Len(t) : t[i].kind = "RSPrimary"}) <= 1}

IsPrimary(s) == s.kind = "RSPrimary"
IsSecondary(s) == s.kind = "RSSecondary"

\* readpref.Primary()
Primary == "primary"

\* The servers a read preference of the given mode keeps
ReadPrefFilter(mode, servers) ==
    LET primaries == SelectSeq(servers, IsPrimary)
        secondaries == SelectSeq(servers, IsSecondary)
    IN CASE mode = "primary" -> primaries
         [] mode = "secondary" -> secondaries
         [] mode = "primaryPreferred" -> IF primaries # <<>> THEN primaries ELSE secondaries
         [] mode = "secondaryPreferred" -> IF secondaries # <<>> THEN secondaries ELSE primaries
         [] mode = "nearest" -> servers

\* The servers within the threshold of the fastest of the given servers
LatencyFilter(threshold, servers) ==
    LET WithinWindow(s) == \A i \in 1..Len(servers) : s.rtt <= servers[i].rtt + threshold
    IN SelectSeq(servers, WithinWindow)

\* readpref.Selector(rp)
ReadPrefSelector(rp) == <<[filter |-> "readpref", mode |-> rp, threshold |-> 0]>>

\* cluster.LatencySelector(localThreshold)
LatencySelector(localThreshold) ==
    <<[filter |-> "latency", mode |-> "none", threshold |-> localThreshold]>>

\* Mutation of CompositeSelector: the selectors are applied last to first.
RECURSIVE CompositeSelectorReversed(_)
CompositeSelectorReversed(selectors) ==
    IF selectors = <<>> THEN <<>>
    ELSE CompositeSelectorReversed(Tail(selectors)) \o Head(selectors)

\* cluster.CompositeSelector(selectors): each selector is applied to what
\* the one before it kept.
RECURSIVE CompositeSelector(_)
CompositeSelector(selectors) ==
    IF selectors = <<>> THEN <<>>
    ELSE Head(selectors) \o CompositeSelector(Tail(selectors))

\* newCollection: the two selectors of a collection with read preference rp
readSelector(rp) ==
    CompositeSelector(<<ReadPrefSelector(rp), LatencySelector(LocalThreshold)>>)

writeSelector == ReadPrefSelector(Primary)

ApplyFilter(f, servers) ==
    IF f.filter = "readpref" THEN ReadPrefFilter(f.mode, servers)
    ELSE LatencyFilter(f.threshold, servers)

\* What each filter of the selector kept, in the order applied
RECURSIVE SelectSteps(_, _)
SelectSteps(selector, servers) ==
    IF selector = <<>> THEN <<>>
    ELSE LET kept == ApplyFilter(Head(selector), servers)
         IN <<kept>> \o SelectSteps(Tail(selector), kept)

\* The servers the selector as a whole keeps
Candidates(selector, servers) ==
    IF selector = <<>> THEN servers
    ELSE SelectSteps(selector, servers)[Len(selector)]

WriteOperations ==
    {"InsertOne", "InsertMany", "DeleteOne", "DeleteMany", "UpdateOne", "UpdateMany",
     "ReplaceOne", "FindOneAndDelete", "FindOneAndReplace", "FindOneAndUpdate"}

ReadOperations == {"Count", "Distinct", "Find", "FindOne"}

Operations == WriteOperations \cup ReadOperations \cup {"Aggregate"}

\* The operations that look at their arguments before they select a server
CheckedOperations ==
    {"InsertOne", "InsertMany", "UpdateOne", "UpdateMany", "ReplaceOne",
     "FindOneAndReplace", "FindOneAndUpdate"}

\* client.selectServer(ctx, selector, rp) returning the server at index i of
\* the candidates, or an error when there is none
selectServer(name, selector, rp, servers, i) ==
    [selector |-> name,
     filters |-> selector,
     readPref |-> rp,
     kept |-> SelectSteps(selector, servers),
     server |-> IF Candidates(selector, servers) = <<>> THEN 0 ELSE i,
     err |-> IF Candidates(selector, servers) = <<>> THEN "ErrServerSelection" ELSE "nil"]

getWriteableServer(in, i) == selectServer("writeSelector", writeSelector, Primary, in.servers, i)

getReadableServer(in, i) ==
    selectServer("readSelector", readSelector(in.readPreference), in.readPreference,
                 in.servers, i)

\* The call returned before it selected a server.
ReturnedEarly ==
    [selector |-> "none", filters |-> <<>>, readPref |-> "none", kept |-> <<>>,
     server |-> 0, err |-> "ErrArguments"]

\* An operation of Collection up to and including its server selection
CallOperation(in, i) ==
    /\ spc = "idle"
    /\ spc' = "selected"
    /\ sin' = in
    /\ sout' = IF in.op \in CheckedOperations /\ ~in.argsOk THEN ReturnedEarly
               ELSE IF in.op \in ReadOperations THEN getReadableServer(in, i)
               ELSE getWriteableServer(in, i)

OperationInputs ==
    {in \in [op : Operations, argsOk : BOOLEAN, readPreference : ReadPrefModes,
             servers : Topologies] :
        in.op \notin CheckedOperations => in.argsOk}

InitSelect == ClockInit /\ GoIdle /\ RestIdle

NextSelect ==
    spc = "idle" /\ \E in \in OperationInputs :
        \E i \in 1..MaxServers :
            /\ i = 1 \/ i <= Len(Candidates(IF in.op \in ReadOperations
                                             THEN readSelector(in.readPreference)
                                             ELSE writeSelector, in.servers))
            /\ CallOperation(in, i)
            /\ UNCHANGED otherThanSelect

SpecSelect == InitSelect /\ [][NextSelect]_vars

\* C20: every write operation of Collection selects its server with the
\* primary-only write selector whatever the collection's read preference is;
\* Count, Distinct and Find select with the read selector, which applies the
\* read-preference filter first and the latency-window filter second.
C20_WriteAndReadSelectors ==
    (spc = "selected" /\ sout.selector # "none") =>
        /\ sin.op \in WriteOperations =>
               /\ sout.selector = "writeSelector"
               /\ Len(sout.kept) = 1
               /\ sout.kept[1] = SelectSeq(sin.servers, IsPrimary)
        /\ sin.op \in {"Count", "Distinct", "Find"} =>
               /\ sout.selector = "readSelector"
               /\ Len(sout.kept) = 2
               /\ sout.kept[1] = ReadPrefFilter(sin.readPreference, sin.servers)
               /\ sout.kept[2] = LatencyFilter(LocalThreshold, sout.kept[1])
        /\ sout.server # 0 => sout.server \in 1..Len(sout.kept[Len(sout.kept)])

\* Find with read preference secondary when the primary is the fastest
\* server: the secondaries are kept although they are outside its window.
C20_Witness ==
    /\ spc = "selected"
    /\ sin.op = "Find"
    /\ sin.readPreference = "secondary"
    /\ sin.servers = <<[kind |-> "RSPrimary", rtt |-> 1], [kind |-> "RSSecondary", rtt |-> 3]>>
    /\ sout.kept = <<<<[kind |-> "RSSecondary", rtt |-> 3]>>, <<[kind |-> "RSSecondary", rtt |-> 3]>>>>
    /\ sout.err = "nil"


\* Some key of the document begins with '$'.
HasDollarKey(doc) == \E i \in 1..Len(doc) : Len(doc[i]) > 0 /\ doc[i][1] = "$"

\* C21: ensureDollarKey accepts an update document only if it has a key
\* beginning with '$'; for every document without such a key UpdateOne and
\* UpdateMany fail with that error before a server is selected or a command
\* is sent.
C21_UpdateNeedsDollarKey ==
    (wpc # "idle" /\ win.op \in UpdateOps) =>
        /\ ~HasDollarKey(win.doc) =>
               /\ wpc = "returned"
               /\ wout.err = "ErrNoDollarKey"
               /\ wout.server = "nil"
               /\ wout.log = <<>>
        /\ wout.err # "ErrNoDollarKey" => HasDollarKey(win.doc)

\* C22: ReplaceOne and FindOneAndReplace reject with an error, before a
\* server is selected, every replacement document that has a key beginning
\* with '$', wherever in the document the key stands.
C22_ReplacementRejectsDollarKey ==
    (wpc # "idle" /\ win.op \in ReplaceOps /\ HasDollarKey(win.doc)) =>
        /\ wpc = "returned"
        /\ wout.err # "nil"
        /\ wout.server = "nil"
        /\ wout.log = <<>>


\* How many times event e is in a log
Count(log, e) == Cardinality({i \in 1..Len(log) : log[i] = e})

\* C23: DropIndexes starts an implicit session exactly when the command has
\* no explicit session and the topology supports sessions; the implicit
\* session is ended before DropIndexes returns, whether the round trip
\* succeeds or fails, and an explicit session is never ended by it.
C23_DropIndexesEndsImplicitSession ==
    (fpc = "done" /\ fin.op = "DropIndexes") =>
        /\ Count(fout.log, "NewClientSession") = 1 <=>
               (fin.session = "supported" /\ fin.fail \in {"none", "roundtrip"})
        /\ Count(fout.log, "NewClientSession") <= 1
        /\ fout.session = "implicit" <=> Count(fout.log, "NewClientSession") = 1
        /\ fout.session = "implicit" =>
               /\ Count(fout.log, "EndSession") = 1
               /\ Before(fout.log, "NewClientSession", "EndSession")
               /\ Before(fout.log, "RoundTrip", "EndSession")
               /\ Pos(fout.log, "RoundTrip") # 0
        /\ fout.session # "implicit" => Count(fout.log, "EndSession") = 0
        /\ fout.deferred = <<>>

\* C23 witness: the round trip failed and the implicit session was ended.
C23_Witness ==
    /\ fpc = "done"
    /\ fin.op = "DropIndexes"
    /\ fout.err = "ErrRoundTrip"
    /\ fout.log = <<"SelectServer", "Connection", "NewClientSession", "RoundTrip",
                    "EndSession", "conn.Close">>

\* C24: whenever Find returns an error after it has started an implicit
\* session (ErrCollation, or a hint, max, min, projection or sort that does
\* not encode), the implicit session has been ended.
C24_FindEndsImplicitSessionOnError ==
    (fpc = "done" /\ fin.op = "Find" /\ fout.session = "implicit"
        /\ fout.err \in {"ErrCollation", "ErrEncode"}) =>
        Count(fout.log, "EndSession") = 1

\* C25: every connection Find or DropIndexes acquires is closed exactly once
\* before the function returns, on the success path and on every error path
\* after the acquisition.
C25_ConnectionClosedOnce ==
    fpc = "done" =>
        /\ Count(fout.log, "Connection") <= 1
        /\ Count(fout.log, "conn.Close") = Count(fout.log, "Connection")
        /\ Count(fout.log, "Connection") = 1 <=> fin.fail \notin {"select", "connection"}
        /\ Count(fout.log, "Connection") = 1 =>
               (fout.returned /\ fout.log[Len(fout.log)] = "conn.Close")

\* C25 witness: Find returned ErrCollation with its session started, and
\* the connection was closed.
C25_Witness ==
    /\ fpc = "done"
    /\ fin.op = "Find"
    /\ fout.err = "ErrCollation"
    /\ fout.log = <<"SelectServer", "Connection", "NewClientSession", "conn.Close">>

\* The elements with the given key in a sequence of elements
WithKey(elems, key) == SelectSeq(elems, LAMBDA e : e.Key = key)

\* C26: Find adds singleBatch:true to the command exactly when BatchSize and
\* Limit are both set, BatchSize is not 0 and Limit <= BatchSize; when
\* BatchSize is set the same batchSize element is in the command and in the
\* cursor options, and in neither when it is unset.
C26_BatchSizeAndSingleBatch ==
    (fpc = "done" /\ fin.op = "Find" /\ fin.fail \in {"none", "roundtrip"}) =>
        /\ WithKey(fout.Opts, "singleBatch") =
               IF /\ IsSet(fin.fo, "BatchSize") /\ IsSet(fin.fo, "Limit")
                  /\ fin.fo["BatchSize"] # 0
                  /\ fin.fo["Limit"] <= fin.fo["BatchSize"]
               THEN <<Elem("singleBatch", "boolean", 1)>>
               ELSE <<>>
        /\ WithKey(fout.Opts, "batchSize") =
               IF IsSet(fin.fo, "BatchSize")
               THEN <<Elem("batchSize", "int32", fin.fo["BatchSize"])>>
               ELSE <<>>
        /\ WithKey(fout.CursorOpts, "batchSize") = WithKey(fout.Opts, "batchSize")

\* C26 witness: the limit equals the batch size.
C26_Witness ==
    /\ fpc = "done"
    /\ fin.op = "Find"
    /\ fout.err = "nil"
    /\ fout.Opts = <<Elem("batchSize", "int32", 2), Elem("singleBatch", "boolean", 1),
                     Elem("limit", "int64", 2)>>
    /\ fout.CursorOpts = <<Elem("batchSize", "int32", 2)>>

\* C27: with the Collation option set and the server's maximum wire version
\* below 5, Find returns ErrCollation and no cursor and sends no command;
\* with a maximum wire version of 5 or more the collation document is added
\* to the find command.
C27_CollationNeedsWireVersion5 ==
    (fpc = "done" /\ fin.op = "Find" /\ fin.fail \in {"none", "roundtrip"}
        /\ IsSet(fin.fo, "Collation")) =>
        /\ fin.wireMax < 5 =>
               /\ fout.err = "ErrCollation"
               /\ ~fout.cursor
               /\ Count(fout.log, "RoundTrip") = 0
               /\ WithKey(fout.Opts, "collation") = <<>>
        /\ fin.wireMax >= 5 =>
               /\ fout.err # "ErrCollation"
               /\ WithKey(fout.Opts, "collation") =
                      <<Elem("collation", "document", fin.fo["Collation"])>>

\* C27 witness: a server of wire version 4 and a collation.
C27_Witness ==
    /\ fpc = "done"
    /\ fin.op = "Find"
    /\ IsSet(fin.fo, "Collation")
    /\ fin.wireMax = 4
    /\ fout.err = "ErrCollation"
    /\ fout.log = <<"SelectServer", "Connection", "conn.Close">>
====
